---- MODULE Spec2Model ----
(***************************************************************************)
(* A model of the diagnostic core of DroneBuilder: the field resolver and  *)
(* expression evaluator (core/resolver.py), the constraint validator       *)
(* (engines/compatibility.py), the discrepancy detector                    *)
(* (engines/discrepancy.py), the firmware cross-validator                  *)
(* (engines/firmware_validator.py), and the confidence scorer, the quick   *)
(* health check (engines/diagnose.py) and the symptom prioritizer          *)
(* (engines/symptom_map.py).                                               *)
(*                                                                         *)
(* Python text is modelled as a sequence of one-character strings, so that *)
(* splitting, substitution, case folding and character screening are       *)
(* computed, not assumed.  Python values are tagged records [t, v]; an     *)
(* exception leaving a function is the outcome [kind |-> "raise"].         *)
(***************************************************************************)
EXTENDS Integers, Sequences, FiniteSets, TLC

VARIABLES
    build,          \* the Build under evaluation
    constraint,     \* the Constraint handed to evaluate_constraint
    result,         \* what evaluate_constraint produced; NoCall before the call
    rules,          \* the external rule set, as the YAML files give it
    report,         \* what validate_build produced
    report_passed,  \* what reading ValidationReport.passed gave
    pair,           \* the two components handed to check_pair
    pair_results,   \* what check_pair produced
    config,         \* the FCConfig read from the flight controller
    fw_report,      \* what validate_firmware_config produced
    discrepancies,  \* what detect_discrepancies produced
    item,           \* the finding handed to compute_confidence
    confidence,     \* what compute_confidence produced
    quick_report,   \* what run_quick_health_check produced
    prio_results,   \* the results handed to prioritize_results
    prio_discrepancies, \* the discrepancies handed to prioritize_results
    symptoms,       \* the symptom keys handed to prioritize_results
    prioritized,    \* what prioritize_results produced
    diff_old,       \* the older snapshot handed to diff_configs
    diff_new,       \* the newer snapshot handed to diff_configs
    changes,        \* what diff_configs produced
    user_text,      \* the free text handed to match_symptom
    matches,        \* what match_symptom produced
    expr_text,      \* the expression handed to _eval_expression
    eval_arg,       \* the text _eval_expression handed to eval; Nothing when it did not
    expr_value,      \* what _eval_expression produced
    registry,       \* the connection registry of fc_serial/connection.py: _connections, its lock and the FCConnection objects
    callers,        \* the threads calling the registry or serving a web request, each with its position
    readers,        \* _reader_threads of web/routes/serial.py and the reader threads started
    wire            \* the bytes between flight controller, serial port and terminal

evalVars == <<constraint, result>>
reportVars == <<rules, report, report_passed, pair, pair_results>>
fwVars == <<config, fw_report, discrepancies>>
diagVars ==
    <<item, confidence, quick_report, prio_results, prio_discrepancies, symptoms, prioritized>>
diffVars == <<diff_old, diff_new, changes>>
matchVars == <<user_text, matches>>
exprVars == <<expr_text, eval_arg, expr_value>>
serialVars == <<registry, callers, readers, wire>>
otherVars == <<diffVars, matchVars, exprVars, serialVars>>
vars == <<build, evalVars, reportVars, fwVars, diagVars, otherVars>>

-----------------------------------------------------------------------------
(* Text *)

LowerCase == {"a","b","c","d","e","f","g","h","i","j","k","l","m",
              "n","o","p","q","r","s","t","u","v","w","x","y","z"}
UpperCase == {"A","B","C","D","E","F","G","H","I","J","K","L","M",
              "N","O","P","Q","R","S","T","U","V","W","X","Y","Z"}
Digit == {"0","1","2","3","4","5","6","7","8","9"}

IsAlpha(c) == c \in LowerCase \cup UpperCase
IsDigitChar(c) == c \in Digit
\* \w of the re module, and the first character of an identifier
IsWordChar(c) == IsAlpha(c) \/ IsDigitChar(c) \/ c = "_"
IsIdentStart(c) == IsAlpha(c) \/ c = "_"

\* str.isdigit(): non-empty and every character a digit
IsDigitStr(s) == Len(s) > 0 /\ \A i \in 1..Len(s) : IsDigitChar(s[i])

DigitVal(c) ==
    CASE c = "0" -> 0 [] c = "1" -> 1 [] c = "2" -> 2 [] c = "3" -> 3
      [] c = "4" -> 4 [] c = "5" -> 5 [] c = "6" -> 6 [] c = "7" -> 7
      [] c = "8" -> 8 [] c = "9" -> 9

DigitChar(n) == <<"0","1","2","3","4","5","6","7","8","9">>[n + 1]

RECURSIVE DigitsVal(_)
DigitsVal(s) ==
    IF Len(s) = 0 THEN 0
    ELSE 10 * DigitsVal(SubSeq(s, 1, Len(s) - 1)) + DigitVal(s[Len(s)])

RECURSIVE NatStr(_)
NatStr(n) == IF n < 10 THEN <<DigitChar(n)>>
             ELSE NatStr(n \div 10) \o <<DigitChar(n % 10)>>

\* str(int)
IntStr(n) == IF n < 0 THEN <<"-">> \o NatStr(0 - n) ELSE NatStr(n)

Drop(s, n) == SubSeq(s, n + 1, Len(s))
Take(s, n) == SubSeq(s, 1, n)

\* s.startswith(p)
StartsWith(s, p) == Len(p) <= Len(s) /\ Take(s, Len(p)) = p

\* s.find(p): the first index (from 1) at which p occurs in s, 0 when none
Find(s, p) ==
    LET hits == {i \in 1..(Len(s) - Len(p) + 1) : SubSeq(s, i, i + Len(p) - 1) = p}
    IN IF hits = {} THEN 0 ELSE CHOOSE i \in hits : \A j \in hits : i <= j

\* p in s
Contains(s, p) == Len(p) = 0 \/ Find(s, p) > 0

\* s.replace(old, new): every non-overlapping occurrence, leftmost first
RECURSIVE Replace(_, _, _)
Replace(s, old, new) ==
    IF Len(old) = 0 \/ Find(s, old) = 0 THEN s
    ELSE LET i == Find(s, old)
         IN Take(s, i - 1) \o new \o Replace(Drop(s, i + Len(old) - 1), old, new)

\* s.replace(old, new, 1)
ReplaceFirst(s, old, new) ==
    IF Len(old) = 0 \/ Find(s, old) = 0 THEN s
    ELSE LET i == Find(s, old)
         IN Take(s, i - 1) \o new \o Drop(s, i + Len(old) - 1)

IsSpace(c) == c \in {" ", "\t", "\n"}

RECURSIVE LStrip(_)
LStrip(s) == IF Len(s) > 0 /\ IsSpace(s[1]) THEN LStrip(Tail(s)) ELSE s

RECURSIVE RStrip(_)
RStrip(s) == IF Len(s) > 0 /\ IsSpace(s[Len(s)])
             THEN RStrip(Take(s, Len(s) - 1)) ELSE s

\* s.strip()
Strip(s) == LStrip(RStrip(s))

\* s.lstrip("-")
RECURSIVE LStripMinus(_)
LStripMinus(s) == IF Len(s) > 0 /\ s[1] = "-" THEN LStripMinus(Tail(s)) ELSE s

-----------------------------------------------------------------------------
(* Python values *)

\* A value is [t, v]: t the Python type, v its content.  A float is the
\* exact fraction v[1] / v[2] with v[2] > 0.
None == [t |-> "none", v |-> 0]
PyInt(n) == [t |-> "int", v |-> n]
PyFloat(n, d) == [t |-> "float", v |-> <<n, d>>]
PyBool(b) == [t |-> "bool", v |-> b]
PyStr(s) == [t |-> "str", v |-> s]
PyList(xs) == [t |-> "list", v |-> xs]
\* any other object (a dict, a bound method): only its type is kept
PyObject == [t |-> "object", v |-> 0]

IsNone(x) == x.t = "none"
IsNumber(x) == x.t \in {"int", "float", "bool"}
\* bool is a subclass of int: True is 1 and False is 0 in arithmetic
Num(x) == IF x.t = "bool" THEN (IF x.v THEN 1 ELSE 0)
          ELSE IF x.t = "float" THEN x.v[1] ELSE x.v
Den(x) == IF x.t = "float" THEN x.v[2] ELSE 1

NumLt(a, b) == Num(a) * Den(b) < Num(b) * Den(a)
NumEq(a, b) == Num(a) * Den(b) = Num(b) * Den(a)
NumLe(a, b) == NumLt(a, b) \/ NumEq(a, b)

\* a * b, a + b, a - b on numbers: a float operand makes the result a float
NumMul(a, b) ==
    IF a.t = "float" \/ b.t = "float"
    THEN PyFloat(Num(a) * Num(b), Den(a) * Den(b))
    ELSE PyInt(Num(a) * Num(b))
NumAdd(a, b) ==
    IF a.t = "float" \/ b.t = "float"
    THEN PyFloat(Num(a) * Den(b) + Num(b) * Den(a), Den(a) * Den(b))
    ELSE PyInt(Num(a) + Num(b))
NumNeg(a) == IF a.t = "float" THEN PyFloat(0 - Num(a), Den(a)) ELSE PyInt(0 - Num(a))

\* bool(x)
Truthy(x) ==
    CASE x.t = "none" -> FALSE
      [] x.t = "bool" -> x.v
      [] x.t \in {"int", "float"} -> Num(x) # 0
      [] x.t \in {"str", "list"} -> Len(x.v) > 0
      [] OTHER -> TRUE

\* a == b
RECURSIVE PyEq(_, _)
PyEq(a, b) ==
    CASE IsNumber(a) /\ IsNumber(b) -> NumEq(a, b)
      [] a.t = "str" /\ b.t = "str" -> a.v = b.v
      [] a.t = "list" /\ b.t = "list" ->
            /\ Len(a.v) = Len(b.v)
            /\ \A i \in 1..Len(a.v) : PyEq(a.v[i], b.v[i])
      [] a.t = "none" /\ b.t = "none" -> TRUE
      [] OTHER -> FALSE

\* x in xs, for a list xs
PyIn(x, xs) == \E i \in 1..Len(xs.v) : PyEq(x, xs.v[i])

\* text order of str < str: by code point, a proper prefix first.  The
\* model's texts are compared only where one is a prefix of the other or
\* they differ first in characters of one class (digits, or one case).
CharOrd(c) ==
    LET order == <<"0","1","2","3","4","5","6","7","8","9",
                   "A","B","C","D","E","F","G","H","I","J","K","L","M",
                   "N","O","P","Q","R","S","T","U","V","W","X","Y","Z","_",
                   "a","b","c","d","e","f","g","h","i","j","k","l","m",
                   "n","o","p","q","r","s","t","u","v","w","x","y","z">>
        at == {i \in 1..Len(order) : order[i] = c}
    IN IF at = {} THEN 0 ELSE CHOOSE i \in at : TRUE

RECURSIVE StrLt(_, _)
StrLt(a, b) ==
    IF Len(b) = 0 THEN FALSE
    ELSE IF Len(a) = 0 THEN TRUE
    ELSE IF a[1] = b[1] THEN StrLt(Tail(a), Tail(b))
    ELSE CharOrd(a[1]) < CharOrd(b[1])

\* list < list, for lists of texts: the first differing element decides
RECURSIVE ListLt(_, _)
ListLt(a, b) ==
    IF Len(b) = 0 THEN FALSE
    ELSE IF Len(a) = 0 THEN TRUE
    ELSE IF a[1].v = b[1].v THEN ListLt(Tail(a), Tail(b))
    ELSE StrLt(a[1].v, b[1].v)

IsTextList(x) == x.t = "list" /\ \A i \in 1..Len(x.v) : x.v[i].t = "str"

\* Whether a < b (also <=, >, >=) is defined: otherwise it raises TypeError
Orderable(a, b) ==
    \/ IsNumber(a) /\ IsNumber(b)
    \/ a.t = "str" /\ b.t = "str"
    \/ IsTextList(a) /\ IsTextList(b)

PyLt(a, b) ==
    IF IsNumber(a) THEN NumLt(a, b)
    ELSE IF a.t = "str" THEN StrLt(a.v, b.v)
    ELSE ListLt(a.v, b.v)
PyLe(a, b) == PyLt(a, b) \/ PyEq(a, b)

\* str(float): the shortest decimal, with at least one fractional digit
RECURSIVE FracStr(_, _)
FracStr(rem, d) ==
    IF rem = 0 THEN <<>>
    ELSE <<DigitChar((rem * 10) \div d)>> \o FracStr((rem * 10) % d, d)

FloatStr(n, d) ==
    LET a == IF n < 0 THEN 0 - n ELSE n
        frac == FracStr(a % d, d)
    IN (IF n < 0 THEN <<"-">> ELSE <<>>) \o NatStr(a \div d) \o <<".">>
       \o (IF frac = <<>> THEN <<"0">> ELSE frac)

\* repr(str): the text between quotes (the model's texts hold no quote)
StrRepr(s) == <<"'">> \o s \o <<"'">>

\* str(x) of the values the resolver formats; a list or another object
\* prints with brackets, braces or angle brackets
PyStrOf(x) ==
    CASE x.t = "int" -> IntStr(x.v)
      [] x.t = "float" -> FloatStr(x.v[1], x.v[2])
      [] x.t = "bool" -> IF x.v THEN <<"T","r","u","e">> ELSE <<"F","a","l","s","e">>
      [] x.t = "str" -> x.v
      [] x.t = "none" -> <<"N","o","n","e">>
      [] x.t = "list" -> <<"[", "]">>
      [] OTHER -> <<"<", "o", "b", "j", "e", "c", "t", ">">>

-----------------------------------------------------------------------------
(* eval(text, {"__builtins__": {}}, {}): Python's evaluation of an          *)
(* expression with no names bound.  Modelled: integer and decimal          *)
(* literals, + - * /, unary + and -, parentheses, chained comparisons,     *)
(* not / and / or with their short-circuit, the constants True, False and  *)
(* None, and any other name, with or without attributes read from it (a   *)
(* NameError).  A text using another operator (& | ** // % and the like)   *)
(* or reading an attribute of a value evaluates to Unmodelled.             *)

EvalErr == [t |-> "error", v |-> 0]
Unmodelled == [t |-> "unmodelled", v |-> 0]
IsErr(x) == x.t \in {"error", "unmodelled"}
\* an error in either operand wins; an unmodelled one is kept as such
ErrOf(a, b) == IF a.t = "unmodelled" \/ b.t = "unmodelled" THEN Unmodelled ELSE EvalErr

Tok(k, v) == [k |-> k, v |-> v]

DigitSpan(s) ==
    CHOOSE n \in 0..Len(s) :
        /\ \A i \in 1..n : IsDigitChar(s[i])
        /\ n = Len(s) \/ ~IsDigitChar(s[n + 1])

WordSpan(s) ==
    CHOOSE n \in 0..Len(s) :
        /\ \A i \in 1..n : IsWordChar(s[i])
        /\ n = Len(s) \/ ~IsWordChar(s[n + 1])

RECURSIVE Pow10(_)
Pow10(k) == IF k = 0 THEN 1 ELSE 10 * Pow10(k - 1)

TwoCharOps == {<<"<","=">>, <<">","=">>, <<"=","=">>, <<"!","=">>}
OneCharOps == {"<", ">", "+", "-", "*", "/", "(", ")", "."}
\* operators of Python the model does not evaluate
OtherTwoCharOps == {<<"*","*">>, <<"/","/">>, <<"<","<">>, <<">",">">>}

\* The tokens of a text; a token of kind "bad" is a lexical error
RECURSIVE Lex(_)
Lex(s) ==
    IF Len(s) = 0 THEN <<>>
    ELSE IF IsSpace(s[1]) THEN Lex(Tail(s))
    ELSE IF IsDigitChar(s[1]) \/ (s[1] = "." /\ Len(s) > 1 /\ IsDigitChar(s[2])) THEN
        LET n == DigitSpan(s)
            dot == Len(s) > n /\ s[n + 1] = "."
            m == IF dot THEN DigitSpan(Drop(s, n + 1)) ELSE 0
            used == IF dot THEN n + 1 + m ELSE n
            whole == DigitsVal(Take(s, n))
            val == IF dot
                   THEN PyFloat(whole * Pow10(m) + DigitsVal(SubSeq(s, n + 2, n + 1 + m)),
                                Pow10(m))
                   ELSE PyInt(whole)
            \* a letter right after a literal (1e5, 0x1f, 1j, 12abc) and a
            \* literal with a leading zero are left out of the model
            glued == Len(s) > used /\ IsWordChar(s[used + 1])
            zero == n > 1 /\ s[1] = "0"
        IN <<IF glued \/ zero THEN Tok("unmodelled", 0) ELSE Tok("num", val)>>
           \o Lex(Drop(s, used))
    ELSE IF IsIdentStart(s[1]) THEN
        LET n == WordSpan(s)
        IN <<Tok("name", Take(s, n))>> \o Lex(Drop(s, n))
    ELSE IF Len(s) > 1 /\ Take(s, 2) \in TwoCharOps THEN
        <<Tok("op", Take(s, 2))>> \o Lex(Drop(s, 2))
    ELSE IF Len(s) > 1 /\ Take(s, 2) \in OtherTwoCharOps THEN
        <<Tok("unmodelled", 0)>> \o Lex(Drop(s, 2))
    ELSE IF s[1] \in OneCharOps THEN
        <<Tok("op", <<s[1]>>)>> \o Lex(Tail(s))
    ELSE IF s[1] \in {"=", "!"} THEN
        <<Tok("bad", 0)>> \o Lex(Tail(s))
    ELSE <<Tok("unmodelled", 0)>> \o Lex(Tail(s))

IsOp(ts, o) == Len(ts) > 0 /\ ts[1].k = "op" /\ ts[1].v = o
IsName(ts, w) == Len(ts) > 0 /\ ts[1].k = "name" /\ ts[1].v = w
IsCmpOp(ts) ==
    /\ Len(ts) > 0 /\ ts[1].k = "op"
    /\ ts[1].v \in {<<"<">>, <<">">>, <<"<","=">>, <<">","=">>, <<"=","=">>, <<"!","=">>}

Keywords == {<<"a","n","d">>, <<"o","r">>, <<"n","o","t">>}

\* a parse: ok (no syntax error so far), the value, the tokens left
Parsed(ok, val, rest) == [ok |-> ok, val |-> val, rest |-> rest]
SyntaxError == Parsed(FALSE, EvalErr, <<>>)

Compare(o, a, b) ==
    IF IsErr(a) \/ IsErr(b) THEN ErrOf(a, b)
    ELSE IF o = <<"=","=">> THEN PyBool(PyEq(a, b))
    ELSE IF o = <<"!","=">> THEN PyBool(~PyEq(a, b))
    ELSE IF ~Orderable(a, b) THEN EvalErr
    ELSE IF o = <<"<">> THEN PyBool(PyLt(a, b))
    ELSE IF o = <<"<","=">> THEN PyBool(PyLe(a, b))
    ELSE IF o = <<">">> THEN PyBool(PyLt(b, a))
    ELSE PyBool(PyLe(b, a))

Arith(o, a, b) ==
    IF IsErr(a) \/ IsErr(b) THEN ErrOf(a, b)
    ELSE IF ~(IsNumber(a) /\ IsNumber(b)) THEN EvalErr
    ELSE IF o = <<"+">> THEN NumAdd(a, b)
    ELSE IF o = <<"-">> THEN NumAdd(a, NumNeg(b))
    ELSE IF o = <<"*">> THEN NumMul(a, b)
    ELSE IF Num(b) = 0 THEN EvalErr
    ELSE IF Num(b) > 0 THEN PyFloat(Num(a) * Den(b), Den(a) * Num(b))
    ELSE PyFloat(0 - Num(a) * Den(b), 0 - Den(a) * Num(b))

\* A recursive-descent evaluation, one operator per level of the grammar.
\* The operator that parses an operand hands the parse to the operator that
\* goes on from it (SignedFrom, TermStep, ...), so each parse is made once.
RECURSIVE ParseOr(_), OrFrom(_), ParseOrRest(_, _), OrStep(_, _),
          ParseAnd(_), AndFrom(_), ParseAndRest(_, _), AndStep(_, _),
          ParseNot(_), ParseCmp(_), CmpFrom(_), ParseCmpRest(_, _, _, _),
          CmpStep(_, _, _, _, _),
          ParseSum(_), SumFrom(_), ParseSumRest(_, _), SumStep(_, _, _),
          ParseTerm(_), TermFrom(_), ParseTermRest(_, _), TermStep(_, _, _),
          ParseFactor(_)

\* + f and - f
SignedFrom(f, negate) ==
    IF ~f.ok THEN SyntaxError
    ELSE Parsed(TRUE, IF IsErr(f.val) THEN f.val
                      ELSE IF ~IsNumber(f.val) THEN EvalErr
                      ELSE IF negate THEN NumNeg(f.val)
                      ELSE NumAdd(PyInt(0), f.val), f.rest)

\* ( e )
ClosedFrom(e) ==
    IF e.ok /\ IsOp(e.rest, <<")">>) THEN Parsed(TRUE, e.val, Tail(e.rest))
    ELSE SyntaxError

\* not e
NegatedFrom(e) ==
    IF ~e.ok THEN SyntaxError
    ELSE Parsed(TRUE, IF IsErr(e.val) THEN e.val ELSE PyBool(~Truthy(e.val)), e.rest)

ParseFactor(ts) ==
    IF Len(ts) = 0 THEN SyntaxError
    ELSE IF ts[1].k = "num" THEN Parsed(TRUE, ts[1].v, Tail(ts))
    ELSE IF ts[1].k = "unmodelled" THEN Parsed(TRUE, Unmodelled, Tail(ts))
    ELSE IF ts[1].k = "name" THEN
        IF ts[1].v \in Keywords THEN SyntaxError
        ELSE IF ts[1].v = <<"T","r","u","e">> THEN Parsed(TRUE, PyBool(TRUE), Tail(ts))
        ELSE IF ts[1].v = <<"F","a","l","s","e">> THEN Parsed(TRUE, PyBool(FALSE), Tail(ts))
        ELSE IF ts[1].v = <<"N","o","n","e">> THEN Parsed(TRUE, None, Tail(ts))
        \* an unbound name is a NameError, whatever attribute is read from it
        ELSE IF Len(ts) > 2 /\ IsOp(Tail(ts), <<".">>) /\ ts[3].k = "name"
             THEN ParseFactor(<<ts[1]>> \o Drop(ts, 3))
        ELSE Parsed(TRUE, EvalErr, Tail(ts))
    ELSE IF IsOp(ts, <<"-">>) \/ IsOp(ts, <<"+">>)
         THEN SignedFrom(ParseFactor(Tail(ts)), IsOp(ts, <<"-">>))
    ELSE IF IsOp(ts, <<"(">>) THEN ClosedFrom(ParseOr(Tail(ts)))
    ELSE SyntaxError

TermStep(l, o, r) ==
    IF ~r.ok THEN SyntaxError ELSE ParseTermRest(Arith(o, l, r.val), r.rest)
ParseTermRest(l, ts) ==
    IF IsOp(ts, <<"*">>) \/ IsOp(ts, <<"/">>)
    THEN TermStep(l, ts[1].v, ParseFactor(Tail(ts)))
    ELSE Parsed(TRUE, l, ts)
TermFrom(f) == IF ~f.ok THEN SyntaxError ELSE ParseTermRest(f.val, f.rest)
ParseTerm(ts) == TermFrom(ParseFactor(ts))

SumStep(l, o, r) ==
    IF ~r.ok THEN SyntaxError ELSE ParseSumRest(Arith(o, l, r.val), r.rest)
ParseSumRest(l, ts) ==
    IF IsOp(ts, <<"+">>) \/ IsOp(ts, <<"-">>)
    THEN SumStep(l, ts[1].v, ParseTerm(Tail(ts)))
    ELSE Parsed(TRUE, l, ts)
SumFrom(t) == IF ~t.ok THEN SyntaxError ELSE ParseSumRest(t.val, t.rest)
ParseSum(ts) == SumFrom(ParseTerm(ts))

\* the value of a chain a < b < c, which is (a < b) and (b < c), once its
\* next comparison is made: acc is the chain's value so far
ChainValue(acc, started, this) ==
    IF ~started THEN this
    ELSE IF IsErr(acc) THEN acc
    ELSE IF ~Truthy(acc) THEN acc
    ELSE this

CmpStep(prev, acc, started, o, r) ==
    IF ~r.ok THEN SyntaxError
    ELSE ParseCmpRest(r.val, ChainValue(acc, started, Compare(o, prev, r.val)), TRUE, r.rest)
ParseCmpRest(prev, acc, started, ts) ==
    IF IsCmpOp(ts) THEN CmpStep(prev, acc, started, ts[1].v, ParseSum(Tail(ts)))
    ELSE Parsed(TRUE, IF started THEN acc ELSE prev, ts)
CmpFrom(s) == IF ~s.ok THEN SyntaxError ELSE ParseCmpRest(s.val, s.val, FALSE, s.rest)
ParseCmp(ts) == CmpFrom(ParseSum(ts))

ParseNot(ts) ==
    IF IsName(ts, <<"n","o","t">>) THEN NegatedFrom(ParseNot(Tail(ts)))
    ELSE ParseCmp(ts)

\* l and r, l or r: r is not evaluated when l decides
AndValue(l, r) == IF IsErr(l) THEN l ELSE IF ~Truthy(l) THEN l ELSE r
OrValue(l, r) == IF IsErr(l) THEN l ELSE IF Truthy(l) THEN l ELSE r

AndStep(l, r) == IF ~r.ok THEN SyntaxError ELSE ParseAndRest(AndValue(l, r.val), r.rest)
ParseAndRest(l, ts) ==
    IF IsName(ts, <<"a","n","d">>) THEN AndStep(l, ParseNot(Tail(ts)))
    ELSE Parsed(TRUE, l, ts)
AndFrom(n) == IF ~n.ok THEN SyntaxError ELSE ParseAndRest(n.val, n.rest)
ParseAnd(ts) == AndFrom(ParseNot(ts))

OrStep(l, r) == IF ~r.ok THEN SyntaxError ELSE ParseOrRest(OrValue(l, r.val), r.rest)
ParseOrRest(l, ts) ==
    IF IsName(ts, <<"o","r">>) THEN OrStep(l, ParseAnd(Tail(ts)))
    ELSE Parsed(TRUE, l, ts)
OrFrom(a) == IF ~a.ok THEN SyntaxError ELSE ParseOrRest(a.val, a.rest)
ParseOr(ts) == OrFrom(ParseAnd(ts))

\* what eval gives for the tokens ts and their parse p
EvalOf(ts, p) ==
    IF \E i \in 1..Len(ts) : ts[i].k = "bad" THEN EvalErr
    ELSE IF ~p.ok \/ Len(p.rest) > 0
         THEN (IF \E i \in 1..Len(ts) : ts[i].k = "unmodelled" THEN Unmodelled ELSE EvalErr)
    ELSE p.val

ParseAll(ts) == EvalOf(ts, ParseOr(ts))

\* The value of the text, EvalErr when eval raises, Unmodelled when the
\* text is outside the modelled part of Python
PyEval(text) == ParseAll(Lex(text))

-----------------------------------------------------------------------------
(* core/models.py: Component and Build *)

s_id == <<"i","d">>
s_component_type == <<"c","o","m","p","o","n","e","n","t","_","t","y","p","e">>
s_manufacturer == <<"m","a","n","u","f","a","c","t","u","r","e","r">>
s_model == <<"m","o","d","e","l">>
s_weight_g == <<"w","e","i","g","h","t","_","g">>
s_price_usd == <<"p","r","i","c","e","_","u","s","d">>
s_category == <<"c","a","t","e","g","o","r","y">>
s_specs == <<"s","p","e","c","s">>
s_get == <<"g","e","t">>

s_build == <<"b","u","i","l","d">>
s_all_up_weight_g == <<"a","l","l","_","u","p","_","w","e","i","g","h","t","_","g">>
s_dry_weight_g == <<"d","r","y","_","w","e","i","g","h","t","_","g">>
s_motor_count == <<"m","o","t","o","r","_","c","o","u","n","t">>
s_total_price_usd == <<"t","o","t","a","l","_","p","r","i","c","e","_","u","s","d">>

s_motor == <<"m","o","t","o","r">>
s_battery == <<"b","a","t","t","e","r","y">>
s_esc == <<"e","s","c">>
s_fc == <<"f","c">>
s_vtx == <<"v","t","x">>
s_receiver == <<"r","e","c","e","i","v","e","r">>
s_gps == <<"g","p","s">>
s_transmitter == <<"t","r","a","n","s","m","i","t","t","e","r">>

\* dict.get(key, default) on a dict modelled as a function
DictGet(d, key, default) == IF key \in DOMAIN d THEN d[key] ELSE default

\* Component.get(path): a declared attribute first (hasattr covers the
\* dataclass fields and the method get), then the free-form specs
ComponentGet(comp, path, default) ==
    CASE path = s_id -> comp.id
      [] path = s_component_type -> PyStr(comp.component_type)
      [] path = s_manufacturer -> comp.manufacturer
      [] path = s_model -> comp.model
      [] path = s_weight_g -> comp.weight_g
      [] path = s_price_usd -> comp.price_usd
      [] path = s_category -> comp.category
      [] path \in {s_specs, s_get} -> PyObject
      [] OTHER -> DictGet(comp.specs, path, default)

\* A slot of Build.components holds one Component ([list |-> FALSE], one
\* item) or a list of them ([list |-> TRUE]); NoComponent is Python's None
NoComponent == [id |-> None]
One(comp) == [list |-> FALSE, items |-> <<comp>>]
Many(comps) == [list |-> TRUE, items |-> comps]

\* Build.get_component
GetComponent(b, comp_type) ==
    IF comp_type \notin DOMAIN b.components THEN NoComponent
    ELSE LET c == b.components[comp_type]
         IN IF c.list THEN (IF Len(c.items) > 0 THEN c.items[1] ELSE NoComponent)
            ELSE c.items[1]

\* Build.motors and Build.motor_count
Motors(b) == IF s_motor \in DOMAIN b.components THEN b.components[s_motor].items ELSE <<>>
MotorCount(b) == Len(Motors(b))

\* total = 0.0, then total += each value
RECURSIVE SumFrom0(_)
SumFrom0(values) ==
    IF Len(values) = 0 THEN PyFloat(0, 1)
    ELSE NumAdd(SumFrom0(Take(values, Len(values) - 1)), values[Len(values)])

RECURSIVE AllItems(_, _)
AllItems(b, slots) ==
    IF slots = {} THEN <<>>
    ELSE LET k == CHOOSE k \in slots : TRUE
         IN b.components[k].items \o AllItems(b, slots \ {k})

\* Build.all_up_weight_g, Build.dry_weight_g, Build.total_price_usd
AllUpWeight(b) ==
    LET items == AllItems(b, DOMAIN b.components)
    IN SumFrom0([i \in 1..Len(items) |-> items[i].weight_g])
DryWeight(b) ==
    LET battery == GetComponent(b, s_battery)
    IN NumAdd(AllUpWeight(b),
              NumNeg(IF battery = NoComponent THEN PyFloat(0, 1) ELSE battery.weight_g))
TotalPrice(b) ==
    LET items == AllItems(b, DOMAIN b.components)
    IN SumFrom0([i \in 1..Len(items) |-> items[i].price_usd])

-----------------------------------------------------------------------------
(* core/resolver.py *)

ResolveBuildField(field_name, b) ==
    CASE field_name = s_all_up_weight_g -> AllUpWeight(b)
      [] field_name = s_dry_weight_g -> DryWeight(b)
      [] field_name = s_motor_count -> PyInt(MotorCount(b))
      [] field_name = s_total_price_usd -> TotalPrice(b)
      [] OTHER -> None

\* re.findall(r"[a-zA-Z_]\w*(?:\.[a-zA-Z_]\w*)+", expr): how far the match
\* that starts at the head of s reaches, 0 when there is none
RECURSIVE ChainEnd(_, _)
ChainEnd(s, n) ==
    IF Len(s) >= n + 2 /\ s[n + 1] = "." /\ IsIdentStart(s[n + 2])
    THEN ChainEnd(s, n + 1 + WordSpan(Drop(s, n + 1)))
    ELSE n

TokenLen(s) ==
    IF Len(s) = 0 \/ ~IsIdentStart(s[1]) THEN 0
    ELSE LET w == WordSpan(s)
             e == ChainEnd(s, w)
         IN IF e > w THEN e ELSE 0

RECURSIVE FindTokens(_)
FindTokens(s) ==
    IF Len(s) = 0 THEN <<>>
    ELSE LET n == TokenLen(s)
         IN IF n > 0 THEN <<Take(s, n)>> \o FindTokens(Drop(s, n))
            ELSE FindTokens(Tail(s))

SeqToSet(xs) == {xs[i] : i \in 1..Len(xs)}

\* sorted(set(tokens), key=len, reverse=True).  Tokens of one length keep
\* the set's iteration order, which Python leaves open; the model takes
\* one order.  Equal-length tokens cannot contain one another.
RECURSIVE LongestFirst(_)
LongestFirst(toks) ==
    IF toks = {} THEN <<>>
    ELSE LET t == CHOOSE t \in toks : \A u \in toks : Len(u) <= Len(t)
         IN <<t>> \o LongestFirst(toks \ {t})

\* the characters the sanitizer lets through: the allowed set, or any letter
SafeChar(c) ==
    \/ c \in Digit
    \/ c \in {".", "+", "-", "*", "/", "(", ")", "<", ">", "=", " ", "!", "&", "|", "\t", "\n"}
    \/ IsAlpha(c)

\* float(path) for a text made of digits, one "." and at most one "-":
\* a ValueError unless the "-" leads
FloatOf(path) ==
    LET neg == path[1] = "-"
        body == IF neg THEN Tail(path) ELSE path
        dot == Find(body, <<".">>)
        frac == Drop(body, dot)
        n == DigitsVal(Take(body, dot - 1)) * Pow10(Len(frac)) + DigitsVal(frac)
    IN PyFloat(IF neg THEN 0 - n ELSE n, Pow10(Len(frac)))

RECURSIVE resolve_field(_, _), eval_expression(_, _), Substitute(_, _, _),
          SubstituteToken(_, _, _, _)

\* a variant that leaves an unresolved token in the text and goes on
SubstituteResolvedOnly(text, toks, b, value) ==
    IF IsNone(value) THEN Substitute(text, Tail(toks), b)
    ELSE IF value.t = "bool"
         THEN Substitute(Replace(text, toks[1],
                  IF value.v THEN <<"t","r","u","e">> ELSE <<"f","a","l","s","e">>),
                  Tail(toks), b)
    ELSE IF value.t = "str"
         THEN Substitute(Replace(text, toks[1], StrRepr(value.v)), Tail(toks), b)
    ELSE Substitute(Replace(text, toks[1], PyStrOf(value)), Tail(toks), b)

\* one turn of the loop of _eval_expression over the tokens, value being
\* what the token toks[1] resolved to: None ends the loop
SubstituteToken(text, toks, b, value) ==
    IF IsNone(value) THEN None
    ELSE IF value.t = "bool"
         THEN Substitute(Replace(text, toks[1],
                  IF value.v THEN <<"t","r","u","e">> ELSE <<"f","a","l","s","e">>),
                  Tail(toks), b)
    ELSE IF value.t = "str"
         THEN Substitute(Replace(text, toks[1], StrRepr(value.v)), Tail(toks), b)
    ELSE Substitute(Replace(text, toks[1], PyStrOf(value)), Tail(toks), b)

\* the loop: None at the first token that does not resolve, else the text
\* with every token replaced
Substitute(text, toks, b) ==
    IF Len(toks) = 0 THEN PyStr(text)
    ELSE SubstituteToken(text, toks, b, resolve_field(PyStr(toks[1]), b))

\* try: return eval(...) except Exception: return None
NoneIfRaised(value) == IF value = EvalErr THEN None ELSE value

\* _eval_expression from the sanitizer on, resolved being the loop's outcome
Sanitized(resolved) ==
    IF IsNone(resolved) THEN None
    ELSE IF \E i \in 1..Len(resolved.v) : ~SafeChar(resolved.v[i]) THEN None
    ELSE NoneIfRaised(PyEval(Replace(Replace(resolved.v, <<"&","&">>, <<" ","a","n","d"," ">>),
                                     <<"|","|">>, <<" ","o","r"," ">>)))

\* _eval_expression(expr, build)
eval_expression(expr, b) ==
    Sanitized(Substitute(expr, LongestFirst(SeqToSet(FindTokens(expr))), b))

\* resolve_field(path, build)
resolve_field(raw, b) ==
    IF raw.t \in {"int", "float", "bool"} THEN raw
    ELSE
    LET path == Strip(PyStrOf(raw))
        unsigned == ReplaceFirst(ReplaceFirst(path, <<".">>, <<>>), <<"-">>, <<>>)
        parts == Find(path, <<".">>)
    IN IF /\ Contains(path, <<".">>) /\ IsDigitStr(unsigned)
          /\ (~Contains(path, <<"-">>) \/ path[1] = "-")
       THEN FloatOf(path)
       ELSE IF IsDigitStr(LStripMinus(path)) /\ Len(path) - Len(LStripMinus(path)) <= 1
       THEN PyInt(IF path[1] = "-" THEN 0 - DigitsVal(Tail(path)) ELSE DigitsVal(path))
       ELSE IF path = <<"t","r","u","e">> THEN PyBool(TRUE)
       ELSE IF path = <<"f","a","l","s","e">> THEN PyBool(FALSE)
       ELSE IF StartsWith(path, <<"c","a","l","c",":">>) THEN eval_expression(Drop(path, 5), b)
       ELSE IF parts > 0 THEN
           LET comp_type == Take(path, parts - 1)
               field_name == Drop(path, parts)
               comp == GetComponent(b, comp_type)
           IN IF comp_type = s_build THEN ResolveBuildField(field_name, b)
              ELSE IF comp = NoComponent THEN None
              ELSE ComponentGet(comp, field_name, None)
       ELSE None

\* an exception leaving the call
Raise(exc) == [kind |-> "raise", exc |-> exc]

\* ValidationResult(...); details is the dict, its keys the record's fields
ValidationResult(c, passed, details) ==
    [kind |-> "result", constraint_id |-> c.id, constraint_name |-> c.name,
     severity |-> c.severity, passed |-> passed, details |-> details]

\* details.get("skipped")
SkippedFlag(r) == "skipped" \in DOMAIN r.details /\ Truthy(r.details.skipped)

\* a variant that looks at the first required slot only
FirstMissingHeadOnly(components, b) ==
    IF Len(components) > 0
       /\ (components[1] = s_transmitter \/ GetComponent(b, components[1]) = NoComponent)
    THEN 1 ELSE 0

\* a variant whose skip results do not pass
SkippedResultNotPassing(c, details) == ValidationResult(c, FALSE, details)

\* the two early returns of evaluate_constraint: passed=True, and a details
\* dict that carries "skipped": True
SkippedResult(c, details) == ValidationResult(c, TRUE, details)

\* the first required slot that is the unmodelled transmitter or is absent
\* from the build; 0 when every required slot is filled
FirstMissing(components, b) ==
    LET missing == {i \in 1..Len(components) :
                        \/ components[i] = s_transmitter
                        \/ GetComponent(b, components[i]) = NoComponent}
    IN IF missing = {} THEN 0 ELSE CHOOSE i \in missing : \A j \in missing : i <= j

\* s * n for a text or a list s
RECURSIVE Repeat(_, _)
Repeat(s, n) == IF n <= 0 THEN <<>> ELSE s \o Repeat(s, n - 1)

\* a * b; EvalErr stands for the TypeError
PyMul(a, b) ==
    IF IsNumber(a) /\ IsNumber(b) THEN NumMul(a, b)
    ELSE IF a.t \in {"str", "list"} /\ b.t \in {"int", "bool"}
         THEN [t |-> a.t, v |-> Repeat(a.v, Num(b))]
    ELSE IF b.t \in {"str", "list"} /\ a.t \in {"int", "bool"}
         THEN [t |-> b.t, v |-> Repeat(b.v, Num(a))]
    ELSE EvalErr

SupportedOperators ==
    {"expression", "lt", "lte", "gt", "gte", "eq", "neq", "in", "contains",
     "multiply_lte", "range"}

\* The if/elif chain of evaluate_constraint below the skip on unresolved
\* operands: [raised, passed, actual, limit].  val_b_high is what the range
\* operator resolves its upper bound to.
Dispatch(operator, check, val_a, val_b, val_b_high) ==
    LET verdict(passed, actual, limit) ==
            [raised |-> FALSE, passed |-> passed, actual |-> actual, limit |-> limit]
        raised == [raised |-> TRUE, passed |-> FALSE, actual |-> val_a, limit |-> val_b]
        ordered(x, y, holds) == IF Orderable(x, y) THEN verdict(holds, val_a, val_b) ELSE raised
        span == PyStr(PyStrOf(val_b) \o <<" ","t","o"," ">> \o PyStrOf(val_b_high))
    IN CASE operator = "lt" -> ordered(val_a, val_b, PyLt(val_a, val_b))
         [] operator = "lte" -> ordered(val_a, val_b, PyLe(val_a, val_b))
         [] operator = "gt" -> ordered(val_a, val_b, PyLt(val_b, val_a))
         [] operator = "gte" -> ordered(val_a, val_b, PyLe(val_b, val_a))
         [] operator = "eq" -> verdict(PyEq(val_a, val_b), val_a, val_b)
         [] operator = "neq" -> verdict(~PyEq(val_a, val_b), val_a, val_b)
         [] operator = "in" ->
                verdict(IF val_b.t = "list" THEN PyIn(val_a, val_b) ELSE PyEq(val_a, val_b),
                        val_a, val_b)
         [] operator = "contains" ->
                verdict(IF val_a.t = "list" THEN PyIn(val_b, val_a) ELSE PyEq(val_a, val_b),
                        val_a, val_b)
         [] operator = "multiply_lte" ->
                LET computed == PyMul(val_a, DictGet(check, "multiplier", PyFloat(1, 1)))
                IN IF computed = EvalErr THEN raised
                   ELSE IF ~Orderable(computed, val_b) THEN raised
                   ELSE verdict(PyLe(computed, val_b), computed, val_b)
         [] operator = "range" ->
                IF ~IsNone(val_b_high) THEN
                    IF ~Orderable(val_b, val_a) THEN raised
                    ELSE IF ~PyLe(val_b, val_a) THEN verdict(FALSE, val_a, span)
                    ELSE IF ~Orderable(val_a, val_b_high) THEN raised
                    ELSE verdict(PyLe(val_a, val_b_high), val_a, span)
                ELSE ordered(val_a, val_b, PyLe(val_b, val_a))
         [] OTHER -> verdict(FALSE, val_a, val_b)

\* the final return, d being the outcome of the if/elif chain
ChainResult(c, d) ==
    IF d.raised THEN Raise("TypeError")
    ELSE ValidationResult(c, d.passed, [actual |-> d.actual, limit |-> d.limit])

\* the final return under the expression operator, res being what
\* _eval_expression gave
ExpressionResult(c, val_b, res) ==
    ValidationResult(c, IF IsNone(res) THEN TRUE ELSE Truthy(res),
                     [actual |-> res, limit |-> val_b])

\* evaluate_constraint once every required slot is found filled, val_a and
\* val_b being what the operand fields resolved to
EvaluateCheck(c, b, val_a, val_b) ==
    LET check == c.check
        operator == DictGet(check, "operator", "expression")
        expr == DictGet(check, "expression", PyStr(<<>>))
    IN IF operator = "expression" THEN
           IF ~Truthy(expr) THEN ValidationResult(c, TRUE, [actual |-> val_a, limit |-> val_b])
           ELSE IF expr.t # "str" THEN Raise("TypeError")
           ELSE ExpressionResult(c, val_b, eval_expression(expr.v, b))
       ELSE IF IsNone(val_a) \/ IsNone(val_b) THEN
           SkippedResult(c,
               [skipped |-> PyBool(TRUE),
                field_a |-> PyStr(PyStrOf(DictGet(check, "field_a", PyStr(<<>>)))),
                field_b |-> PyStr(PyStrOf(DictGet(check, "field_b", PyStr(<<>>))))])
       ELSE ChainResult(c,
               Dispatch(operator, check, val_a, val_b,
                        resolve_field(DictGet(check, "field_b_high", PyStr(<<>>)), b)))

\* evaluate_constraint(constraint, build).  The message text is left out:
\* it is formatted from the same values and no caller decides on it.
evaluate_constraint(c, b) ==
    IF FirstMissing(c.components, b) > 0
    THEN SkippedResult(c, [skipped |-> PyBool(TRUE)])
    ELSE EvaluateCheck(c, b,
                       resolve_field(DictGet(c.check, "field_a", PyStr(<<>>)), b),
                       resolve_field(DictGet(c.check, "field_b", PyStr(<<>>)), b))

-----------------------------------------------------------------------------
(* core/loader.py: load_constraints; engines/compatibility.py *)

Severities == {"critical", "warning", "info"}

\* Constraint(id=rule["id"], ..., name=rule["name"], ...,
\* severity=Severity(rule.get("severity", "info")), ...) for one rule of a
\* YAML file: the keyword arguments are evaluated in this order
LoadRule(rule) ==
    IF "id" \notin DOMAIN rule THEN Raise("KeyError")
    ELSE IF "name" \notin DOMAIN rule THEN Raise("KeyError")
    ELSE IF DictGet(rule, "severity", "info") \notin Severities THEN Raise("ValueError")
    ELSE [kind |-> "constraint", id |-> rule["id"], name |-> rule["name"],
          severity |-> DictGet(rule, "severity", "info"),
          components |-> DictGet(rule, "components", <<>>),
          check |-> DictGet(rule, "check", <<>>)]

\* load_constraints(): the rules of every file in turn; the first rule that
\* cannot be built ends the load with its exception
RECURSIVE LoadFrom(_, _), LoadNext(_, _, _)
LoadNext(raw, loaded, c) ==
    IF c.kind = "raise" THEN c ELSE LoadFrom(Tail(raw), Append(loaded, c))
LoadFrom(raw, loaded) ==
    IF Len(raw) = 0 THEN [kind |-> "constraints", items |-> loaded]
    ELSE LoadNext(raw, loaded, LoadRule(raw[1]))

load_constraints(raw) == LoadFrom(raw, <<>>)

\* a variant that counts a failure of any severity
CriticalFailuresAnySeverity(results) ==
    {i \in 1..Len(results) : ~results[i].passed}

\* ValidationReport.critical_failures, as positions in the results
CriticalFailures(results) ==
    {i \in 1..Len(results) : results[i].severity = "critical" /\ ~results[i].passed}

\* ValidationReport.passed
ReportPassed(results) == Cardinality(CriticalFailures(results)) = 0

\* the loop of validate_build: an exception of evaluate_constraint leaves it
RECURSIVE EvaluateAll(_, _, _), AppendResult(_, _, _, _)
AppendResult(constraints, b, results, r) ==
    IF r.kind = "raise" THEN r
    ELSE EvaluateAll(Tail(constraints), b, Append(results, r))
EvaluateAll(constraints, b, results) ==
    IF Len(constraints) = 0 THEN [kind |-> "report", build_name |-> b.name, results |-> results]
    ELSE AppendResult(constraints, b, results, evaluate_constraint(constraints[1], b))

\* validate_build from the loaded constraints on
ValidateLoaded(constraints, b) ==
    IF constraints.kind = "raise" THEN constraints
    ELSE EvaluateAll(constraints.items, b, <<>>)

\* validate_build(build)
validate_build(b, raw) == ValidateLoaded(load_constraints(raw), b)

\* the components dict check_pair builds: a motor is stored four times
PairComponents(comp_a, comp_b) ==
    LET slot(comp) == IF comp.component_type = s_motor
                      THEN (s_motor :> Many(<<comp, comp, comp, comp>>))
                      ELSE (comp.component_type :> One(comp))
    IN slot(comp_b) @@ slot(comp_a)

\* a variant that takes a rule when the pair fills any of its slots
IsApplicableAnySlot(c, components) ==
    SeqToSet(c.components) \cap DOMAIN components # {}

\* required_types.issubset(available_types)
IsApplicable(c, components) ==
    SeqToSet(c.components) \subseteq DOMAIN components

\* the loop of check_pair
RECURSIVE EvaluateApplicable(_, _, _, _), AppendPairResult(_, _, _, _, _)
AppendPairResult(constraints, components, mini_build, results, r) ==
    IF r.kind = "raise" THEN r
    ELSE EvaluateApplicable(Tail(constraints), components, mini_build, Append(results, r))
EvaluateApplicable(constraints, components, mini_build, results) ==
    IF Len(constraints) = 0 THEN [kind |-> "results", results |-> results]
    ELSE IF ~IsApplicable(constraints[1], components)
         THEN EvaluateApplicable(Tail(constraints), components, mini_build, results)
    ELSE AppendPairResult(constraints, components, mini_build, results,
                          evaluate_constraint(constraints[1], mini_build))

\* check_pair from the loaded constraints on
CheckLoaded(constraints, components, mini_build) ==
    IF constraints.kind = "raise" THEN constraints
    ELSE EvaluateApplicable(constraints.items, components, mini_build, <<>>)

\* check_pair(comp_a, comp_b)
check_pair(comp_a, comp_b, raw) ==
    LET components == PairComponents(comp_a, comp_b)
        mini_build == [name |-> <<"P","a","i","r"," ","c","h","e","c","k",":"," ">> \o comp_a.id.v \o <<" ","+"," ">> \o comp_b.id.v,
                       drone_class |-> <<"u","n","k","n","o","w","n">>, nickname |-> <<>>,
                       components |-> components]
    IN CheckLoaded(load_constraints(raw), components, mini_build)

-----------------------------------------------------------------------------
(* The builds and rules the evaluator is run on *)

\* cell counts run from MinCells to MaxCells; a motor list holds up to
\* MaxMotors motors
MaxCells == 5
MinCells == MaxCells - 1
MaxMotors == 2

s_cell_count == <<"c","e","l","l","_","c","o","u","n","t">>
s_voltage_max_s == <<"v","o","l","t","a","g","e","_","m","a","x","_","s">>
s_firmware == <<"f","i","r","m","w","a","r","e">>
s_protocols == <<"p","r","o","t","o","c","o","l","s">>
s_fix == <<"f","i","x">>
s_kv == <<"k","v">>

Component(id, ctype, weight, specs) ==
    [id |-> PyStr(id), component_type |-> ctype, manufacturer |-> PyStr(<<"T">>),
     model |-> PyStr(<<"M">>), weight_g |-> weight, price_usd |-> PyFloat(10, 1),
     category |-> PyStr(<<"5">>), specs |-> specs]

Battery(cells) ==
    Component(<<"b">> \o IntStr(cells), s_battery, PyFloat(2005, 10),
              (s_cell_count :> PyInt(cells)))
Esc4S ==
    Component(<<"e","4">>, s_esc, PyFloat(15, 1),
              (s_voltage_max_s :> PyInt(4)) @@ (s_firmware :> PyStr(<<"A","M","3","2">>))
              @@ (s_protocols :> PyList(<<PyStr(<<"D","S","6">>), PyStr(<<"A","M","3","2">>)>>)))
Motor == Component(<<"m">>, s_motor, PyInt(30), (s_kv :> PyInt(1950)))

MkBuild(components) ==
    [name |-> <<"T","e","s","t">>, drone_class |-> <<"5","i","n","c","h">>,
     nickname |-> <<>>, components |-> components]

EvalBuilds ==
    {MkBuild(b @@ e) :
        b \in {<<>>} \cup {(s_battery :> One(Battery(n))) : n \in MinCells..MaxCells},
        e \in {<<>>, (s_esc :> One(Esc4S))}}
    \cup
    {MkBuild((s_battery :> One(Battery(MinCells))) @@ (s_esc :> One(Esc4S))
             @@ (s_motor :> Many([i \in 1..k |-> Motor]))) : k \in 0..MaxMotors}

p_cells == <<"b","a","t","t","e","r","y",".","c","e","l","l","_","c","o","u","n","t">>
p_vmax == <<"e","s","c",".","v","o","l","t","a","g","e","_","m","a","x","_","s">>
p_firmware == <<"e","s","c",".","f","i","r","m","w","a","r","e">>
p_protocols == <<"e","s","c",".","p","r","o","t","o","c","o","l","s">>
p_gps_fix == <<"g","p","s",".","f","i","x">>
p_esc_undeclared == <<"e","s","c",".","m","a","x","_","r","p","m">>
p_motor_count == <<"b","u","i","l","d",".","m","o","t","o","r","_","c","o","u","n","t">>

OperandsA == {PyStr(p_cells), PyStr(p_firmware), PyStr(p_gps_fix), PyInt(5)}
OperandsB == {PyStr(p_vmax), PyStr(p_protocols), PyStr(p_esc_undeclared), PyStr(<<"4">>)}

ComparisonChecks ==
    {("operator" :> o) @@ ("field_a" :> a) @@ ("field_b" :> b) :
        o \in (SupportedOperators \ {"expression"}) \cup {"regex"},
        a \in OperandsA, b \in OperandsB}
    \cup
    {("operator" :> "multiply_lte") @@ ("field_a" :> a) @@ ("field_b" :> b)
        @@ ("multiplier" :> PyInt(2)) : a \in OperandsA, b \in OperandsB}
    \cup
    {("operator" :> "range") @@ ("field_a" :> a) @@ ("field_b" :> b)
        @@ ("field_b_high" :> PyStr(<<"5">>)) : a \in OperandsA, b \in OperandsB}
    \cup
    {("operator" :> "lte") @@ ("field_a" :> PyStr(<<"c","a","l","c",":">> \o p_cells \o <<" ","*"," ","2">>))
        @@ ("field_b" :> b) : b \in OperandsB}
    \cup
    {("operator" :> "gte") @@ ("field_a" :> PyStr(p_motor_count)) @@ ("field_b" :> PyInt(1))}
    \cup
    {("operator" :> "eq") @@ ("field_b" :> PyInt(1))}

Expressions == {
    <<"b","a","t","t","e","r","y",".","c","e","l","l","_","c","o","u","n","t"," ","<","="," ","e","s","c",".","v","o","l","t","a","g","e","_","m","a","x","_","s">>,
    <<"b","a","t","t","e","r","y",".","c","e","l","l","_","c","o","u","n","t"," ","*"," ","2"," ","<","="," ","e","s","c",".","v","o","l","t","a","g","e","_","m","a","x","_","s"," ","+"," ","4"," ","&","&"," ","e","s","c",".","v","o","l","t","a","g","e","_","m","a","x","_","s"," ",">"," ","0">>,
    <<"b","a","t","t","e","r","y",".","c","e","l","l","_","c","o","u","n","t"," ","<","="," ","6"," ","o","r"," ","g","p","s",".","f","i","x">>,
    <<"g","p","s",".","f","i","x"," ","o","r"," ","b","a","t","t","e","r","y",".","c","e","l","l","_","c","o","u","n","t"," ","<","="," ","6">>,
    <<"e","s","c",".","m","a","x","_","r","p","m"," ",">"," ","b","a","t","t","e","r","y",".","c","e","l","l","_","c","o","u","n","t">>,
    <<"e","s","c",".","f","i","r","m","w","a","r","e"," ","=","="," ","e","s","c",".","f","i","r","m","w","a","r","e">>,
    <<"b","u","i","l","d",".","a","l","l","_","u","p","_","w","e","i","g","h","t","_","g"," ","<","="," ","2","5","0">>,
    <<"b","a","t","t","e","r","y",".","c","e","l","l","_","c","o","u","n","t"," ","<","=">>,
    <<"4"," ","<"," ","5">> }

ExpressionChecks ==
    {("operator" :> "expression") @@ ("expression" :> PyStr(e)) : e \in Expressions}
    \cup {("expression" :> PyStr(e)) : e \in Expressions}
    \cup {<<>>, ("operator" :> "expression") @@ ("expression" :> PyInt(1))}

RequiredSlots == {<<>>, <<s_battery, s_esc>>, <<s_esc, s_gps>>, <<s_battery, s_transmitter>>}

Constraint(id, severity, components, check) ==
    [id |-> id, name |-> id, severity |-> severity, components |-> components,
     check |-> check]

EvalConstraints ==
    {Constraint(<<"r","u","l","e">>, "critical", cs, ck) :
        cs \in RequiredSlots, ck \in ComparisonChecks \cup ExpressionChecks}

NoCall == [kind |-> "none"]

-----------------------------------------------------------------------------
(* One call of evaluate_constraint on a drawn rule and build *)

\* the variables of the other operations, at rest
EvalIdle ==
    /\ constraint = <<>>
    /\ result = NoCall
ReportIdle ==
    /\ rules = <<>>
    /\ report = NoCall
    /\ report_passed = NoCall
    /\ pair = <<>>
    /\ pair_results = NoCall
FwIdle ==
    /\ config = <<>>
    /\ fw_report = NoCall
    /\ discrepancies = NoCall
ScoreIdle ==
    /\ item = <<>>
    /\ confidence = NoCall
QuickIdle == quick_report = NoCall
PrioritizeIdle ==
    /\ prio_results = <<>>
    /\ prio_discrepancies = <<>>
    /\ symptoms = <<>>
    /\ prioritized = NoCall
DiagIdle == ScoreIdle /\ QuickIdle /\ PrioritizeIdle
DiffIdle ==
    /\ diff_old = <<>>
    /\ diff_new = <<>>
    /\ changes = NoCall
MatchIdle ==
    /\ user_text = <<>>
    /\ matches = NoCall
ExprIdle ==
    /\ expr_text = <<>>
    /\ eval_arg = NoCall
    /\ expr_value = NoCall
SerialIdle ==
    /\ registry = <<>>
    /\ callers = <<>>
    /\ readers = <<>>
    /\ wire = <<>>
OtherIdle == DiffIdle /\ MatchIdle /\ ExprIdle /\ SerialIdle

InitEval ==
    /\ build \in EvalBuilds
    /\ constraint \in EvalConstraints
    /\ result = NoCall
    /\ ReportIdle
    /\ FwIdle
    /\ DiagIdle
    /\ OtherIdle

Evaluate ==
    /\ result = NoCall
    /\ result' = evaluate_constraint(constraint, build)
    /\ UNCHANGED <<build, constraint, reportVars, fwVars, diagVars, otherVars>>

NextEval == Evaluate

SpecEval == InitEval /\ [][NextEval]_vars

-----------------------------------------------------------------------------
(* Properties of evaluate_constraint, under SpecEval *)

Called == result # NoCall
Returned == result.kind = "result"
IsSkipped == Returned /\ result.passed /\ SkippedFlag(result)
IsPassed == Returned /\ result.passed /\ ~SkippedFlag(result)
IsFailed == Returned /\ ~result.passed /\ ~SkippedFlag(result)

SlotMissing ==
    \E i \in 1..Len(constraint.components) :
        \/ constraint.components[i] = s_transmitter
        \/ GetComponent(build, constraint.components[i]) = NoComponent

RuleOperator == DictGet(constraint.check, "operator", "expression")
RuleExpression == DictGet(constraint.check, "expression", PyStr(<<>>))
HasExpression == RuleOperator = "expression" /\ RuleExpression.t = "str" /\ Len(RuleExpression.v) > 0
OperandA == resolve_field(DictGet(constraint.check, "field_a", PyStr(<<>>)), build)
OperandB == resolve_field(DictGet(constraint.check, "field_b", PyStr(<<>>)), build)

\* some dot-path token of the rule's expression does not resolve
TokenUnresolved ==
    /\ HasExpression
    /\ \E t \in SeqToSet(FindTokens(RuleExpression.v)) : IsNone(resolve_field(PyStr(t), build))

\* an operand of a non-expression rule, or the expression of an expression
\* rule, does not resolve
Unresolvable ==
    \/ RuleOperator # "expression" /\ (IsNone(OperandA) \/ IsNone(OperandB))
    \/ HasExpression /\ IsNone(eval_expression(RuleExpression.v, build))

\* The model's evaluator covers every expression the rules are drawn from:
\* no result holds a value the evaluator left open.
EvalModelled ==
    Returned => \A k \in DOMAIN result.details : result.details[k] # Unmodelled

\* C1: when a required slot of the rule is absent from the build, or is the
\* transmitter, evaluate_constraint returns a Skipped result (passed, with the
\* skipped flag), whatever the operator, the operands and the expression are.
C1_MissingSlotSkipped == (Called /\ SlotMissing) => IsSkipped

\* C1, its case: the first required slot is filled, a later one is absent, and
\* the rule came back Skipped
C1_Witness ==
    /\ Called /\ SlotMissing /\ IsSkipped
    /\ Len(constraint.components) = 2
    /\ GetComponent(build, constraint.components[1]) # NoComponent

\* C2: when an operand field or the expression of a rule cannot be resolved,
\* evaluate_constraint returns a Skipped result (passed, with the skipped
\* flag), under the expression operator as under every other operator.
C2_UnresolvedSkipped == (Called /\ ~SlotMissing /\ Unresolvable) => IsSkipped

\* C2, the part the code keeps: an unresolved operand or expression never
\* fails the rule and never raises
C2_UnresolvedPasses == (Called /\ ~SlotMissing /\ Unresolvable) => (Returned /\ result.passed)

\* C2, its case: an expression rule whose expression did not resolve, and a
\* comparison rule skipped on an unresolved operand
C2_Witness ==
    /\ Called /\ ~SlotMissing /\ Unresolvable
    /\ HasExpression /\ IsPassed /\ IsNone(result.details.actual)

\* C3: a rule whose operator is none of the supported ones gets a passing
\* result for every build and operands; never a Failed result, never an
\* exception.
C3_UnsupportedOperatorPasses ==
    (Called /\ RuleOperator \notin SupportedOperators) => (Returned /\ result.passed)

\* C3, the failing case: an unsupported operator with both operands resolved
C3_Witness ==
    /\ Called /\ RuleOperator \notin SupportedOperators
    /\ ~IsNone(OperandA) /\ ~IsNone(OperandB) /\ IsFailed

\* C6: when a dot-path token of the expression does not resolve,
\* _eval_expression returns None: the rule's result carries None as the
\* evaluated value, and no exception leaves the call.
C6_UnresolvedTokenIsNone ==
    (Called /\ ~SlotMissing /\ TokenUnresolved) => (Returned /\ IsNone(result.details.actual))

\* C6, its case: the unresolved token stands behind an "or" whose left side
\* is true of the build, so that evaluating the rest would give a value
C6_Witness ==
    /\ Called /\ ~SlotMissing /\ TokenUnresolved
    /\ RuleExpression.v = <<"b","a","t","t","e","r","y",".","c","e","l","l","_","c","o","u","n","t"," ","<","="," ","6"," ","o","r"," ","g","p","s",".","f","i","x">>
    /\ GetComponent(build, s_battery) # NoComponent
    /\ Returned /\ IsNone(result.details.actual)

\* C7: every result of evaluate_constraint is exactly one of Skipped, Passed
\* and Failed; none carries the skipped flag with passed = False.
C7_ExactlyOneOutcome ==
    Returned =>
        /\ result.passed \in BOOLEAN
        /\ IsSkipped \/ IsPassed \/ IsFailed
        /\ ~(IsSkipped /\ IsPassed) /\ ~(IsSkipped /\ IsFailed) /\ ~(IsPassed /\ IsFailed)
        /\ ~(SkippedFlag(result) /\ ~result.passed)

\* C7, its case: the three outcomes are all produced; this state is a result
\* that carries the flag because an operand did not resolve
C7_Witness ==
    /\ Returned /\ ~SlotMissing /\ IsSkipped
    /\ "field_a" \in DOMAIN result.details

-----------------------------------------------------------------------------
(* The rule sets, builds and pairs the report operations are run on *)

\* a rule set holds up to MaxRules rules
MaxRules == 2

RawRule(id, severity, components, check) ==
    ("id" :> id) @@ ("name" :> id) @@ ("severity" :> severity)
    @@ ("components" :> components) @@ ("check" :> check)

Without(rule, key) == [k \in DOMAIN rule \ {key} |-> rule[k]]

CellsWithinEsc ==
    ("operator" :> "lte") @@ ("field_a" :> PyStr(p_cells)) @@ ("field_b" :> PyStr(p_vmax))

VoltageRuleId == [critical |-> <<"e","l","e","c","_","0","0","1">>, warning |-> <<"e","l","e","c","_","0","0","2">>, info |-> <<"e","l","e","c","_","0","0","3">>]

\* well-formed rules: the voltage rule at each severity, a rule on a slot
\* no build fills, a rule on the motors
WellFormedRules ==
    {RawRule(VoltageRuleId[sev], sev, <<s_battery, s_esc>>, CellsWithinEsc) : sev \in Severities}
    \cup
    {RawRule(<<"g","p","s","_","0","0","1">>, "critical", <<s_battery, s_gps>>,
             ("operator" :> "eq") @@ ("field_a" :> PyStr(p_gps_fix)) @@ ("field_b" :> PyStr(<<"t","r","u","e">>))),
     RawRule(<<"m","o","t","o","r","_","0","0","1">>, "warning", <<s_motor, s_esc>>,
             ("operator" :> "gte") @@ ("field_a" :> PyStr(<<"m","o","t","o","r",".","k","v">>)) @@ ("field_b" :> PyStr(<<"2","0","0","0">>)))}

\* structurally invalid rules: no id, no name, an unknown severity, an
\* ordering of a text against a number
InvalidRules ==
    {Without(RawRule(<<"b","a","d","_","0","0","1">>, "warning", <<s_esc>>, CellsWithinEsc), "id"),
     Without(RawRule(<<"b","a","d","_","0","0","2">>, "warning", <<s_esc>>, CellsWithinEsc), "name"),
     RawRule(<<"b","a","d","_","0","0","3">>, "fatal", <<s_esc>>, CellsWithinEsc),
     RawRule(<<"b","a","d","_","0","0","4">>, "info", <<s_esc>>,
             ("operator" :> "lt") @@ ("field_a" :> PyStr(p_firmware)) @@ ("field_b" :> PyStr(<<"4">>)))}

RECURSIVE SeqsUpTo(_, _)
SeqsUpTo(S, n) ==
    IF n = 0 THEN {<<>>}
    ELSE LET shorter == SeqsUpTo(S, n - 1)
         IN shorter \cup {Append(q, x) : q \in shorter, x \in S}

RuleSets == SeqsUpTo(WellFormedRules \cup InvalidRules, MaxRules)

ReportBuilds ==
    {MkBuild(b @@ e) :
        b \in {<<>>, (s_battery :> One(Battery(MinCells))), (s_battery :> One(Battery(MaxCells)))},
        e \in {<<>>, (s_esc :> One(Esc4S))}}

Pairs ==
    {<<Battery(MinCells), Esc4S>>, <<Battery(MaxCells), Esc4S>>, <<Motor, Esc4S>>,
     <<Battery(MinCells), Battery(MaxCells)>>}

-----------------------------------------------------------------------------
(* validate_build, ValidationReport.passed and check_pair on a drawn rule
   set *)

InitReport ==
    /\ build \in ReportBuilds
    /\ rules \in RuleSets
    /\ pair \in Pairs
    /\ report = NoCall
    /\ report_passed = NoCall
    /\ pair_results = NoCall
    /\ EvalIdle
    /\ FwIdle
    /\ DiagIdle
    /\ OtherIdle

ValidateBuild ==
    /\ report = NoCall
    /\ report' = validate_build(build, rules)
    /\ UNCHANGED <<build, evalVars, fwVars, rules, report_passed, pair, pair_results, diagVars, otherVars>>

ReadPassed ==
    /\ report # NoCall
    /\ report.kind = "report"
    /\ report_passed = NoCall
    /\ report_passed' = [kind |-> "read", value |-> ReportPassed(report.results)]
    /\ UNCHANGED <<build, evalVars, fwVars, rules, report, pair, pair_results, diagVars, otherVars>>

CheckPair ==
    /\ pair_results = NoCall
    /\ pair_results' = check_pair(pair[1], pair[2], rules)
    /\ UNCHANGED <<build, evalVars, fwVars, rules, report, report_passed, pair, diagVars, otherVars>>

NextReport == ValidateBuild \/ ReadPassed \/ CheckPair

SpecReport == InitReport /\ [][NextReport]_vars

-----------------------------------------------------------------------------
(* Properties of validate_build, ValidationReport and check_pair, under
   SpecReport *)

\* a rule that cannot be loaded, or whose evaluation on the build raises
Malformed(rule, b) ==
    LET c == LoadRule(rule)
    IN c.kind = "raise" \/ evaluate_constraint(c, b).kind = "raise"

MalformedRules == {i \in 1..Len(rules) : Malformed(rules[i], build)}

\* the results of the rules that are not malformed, in the rule set's order
RECURSIVE ResultsOfOthers(_, _)
ResultsOfOthers(raw, b) ==
    IF Len(raw) = 0 THEN <<>>
    ELSE IF Malformed(raw[1], b) THEN ResultsOfOthers(Tail(raw), b)
    ELSE <<evaluate_constraint(LoadRule(raw[1]), b)>> \o ResultsOfOthers(Tail(raw), b)

\* C4: when one rule of the rule set is structurally invalid, validate_build
\* skips that rule only: it raises nothing and its report holds the result
\* of every other rule.
C4_MalformedRuleSkipped ==
    (report # NoCall /\ Cardinality(MalformedRules) = 1) =>
        /\ report.kind = "report"
        /\ report.results = ResultsOfOthers(rules, build)

\* C4, the failing case: a well-formed rule stands before the invalid one,
\* and validate_build ended with an exception and no report
C4_Witness ==
    /\ report # NoCall /\ MalformedRules = {2}
    /\ report.kind = "raise"

\* C8: ValidationReport.passed is True exactly when the results hold no
\* non-skipped CRITICAL result with passed = False; failed WARNING and INFO
\* results, and skipped results, do not make it False.
C8_PassedIffNoCriticalFailure ==
    (report_passed # NoCall) =>
        (report_passed.value <=>
            \A i \in 1..Len(report.results) :
                ~(/\ report.results[i].severity = "critical"
                  /\ ~report.results[i].passed
                  /\ ~SkippedFlag(report.results[i])))

\* C8, its case: a report that holds a failed WARNING result and a skipped
\* CRITICAL result, read as passed
C8_Witness ==
    /\ report_passed # NoCall /\ report_passed.value
    /\ \E i \in 1..Len(report.results) :
          report.results[i].severity = "warning" /\ ~report.results[i].passed
    /\ \E i \in 1..Len(report.results) :
          report.results[i].severity = "critical" /\ SkippedFlag(report.results[i])

PairTypes == {pair[i].component_type : i \in 1..Len(pair)}

\* the rules of the set that ask for no slot type beyond the pair's
WithinPair == {i \in 1..Len(rules) : SeqToSet(DictGet(rules[i], "components", <<>>)) \subseteq PairTypes}

\* C9: every result check_pair returns belongs to a rule whose required
\* slot types all lie in {type of A, type of B}; a rule that requires a type
\* outside that set is neither evaluated nor returned.
C9_OnlyRulesWithinPair ==
    (pair_results # NoCall /\ pair_results.kind = "results") =>
        /\ \A i \in 1..Len(pair_results.results) :
              \A j \in 1..Len(rules) :
                  rules[j]["id"] = pair_results.results[i].constraint_id => j \in WithinPair
        /\ Len(pair_results.results) = Cardinality(WithinPair)

\* C9, its case: of two rules that both name a type of the pair, the one
\* that also requires a type outside the pair is left out
C9_Witness ==
    /\ pair_results # NoCall /\ pair_results.kind = "results"
    /\ Len(pair_results.results) = 1
    /\ \E j \in 1..Len(rules) :
          /\ j \notin WithinPair
          /\ SeqToSet(rules[j]["components"]) \cap PairTypes # {}

-----------------------------------------------------------------------------
(* fc_serial/models.py: FCConfig *)

s_current_sensor == <<"c","u","r","r","e","n","t","_","s","e","n","s","o","r">>
s_chemistry == <<"c","h","e","m","i","s","t","r","y">>

\* The checks below read component specifications as text with .lower()
\* and "in"; the builds they are run on declare such a field as text or
\* leave it out.

UpperOf(c) ==
    IF c \in LowerCase
    THEN (CHOOSE i \in 1..26 : <<"a","b","c","d","e","f","g","h","i","j","k","l","m","n","o","p","q","r","s","t","u","v","w","x","y","z">>[i] = c)
    ELSE 0
ToUpper(c) == IF c \in LowerCase THEN <<"A","B","C","D","E","F","G","H","I","J","K","L","M","N","O","P","Q","R","S","T","U","V","W","X","Y","Z">>[UpperOf(c)] ELSE c
LowerOf(c) ==
    IF c \in UpperCase
    THEN (CHOOSE i \in 1..26 : <<"A","B","C","D","E","F","G","H","I","J","K","L","M","N","O","P","Q","R","S","T","U","V","W","X","Y","Z">>[i] = c)
    ELSE 0
ToLower(c) == IF c \in UpperCase THEN <<"a","b","c","d","e","f","g","h","i","j","k","l","m","n","o","p","q","r","s","t","u","v","w","x","y","z">>[LowerOf(c)] ELSE c

\* s.upper() and s.lower()
Upper(s) == [i \in 1..Len(s) |-> ToUpper(s[i])]
Lower(s) == [i \in 1..Len(s) |-> ToLower(s[i])]

\* the digits of an int literal with its underscores taken out; <<>> when
\* the text is not digits separated by single underscores
RECURSIVE PlainDigits(_)
PlainDigits(s) ==
    IF Len(s) = 0 THEN <<>>
    ELSE IF ~IsDigitChar(s[1]) THEN <<>>
    ELSE IF Len(s) = 1 THEN s
    ELSE IF s[2] = "_"
         THEN (IF Len(PlainDigits(Drop(s, 2))) = 0 THEN <<>>
               ELSE <<s[1]>> \o PlainDigits(Drop(s, 2)))
    ELSE IF Len(PlainDigits(Tail(s))) = 0 THEN <<>>
    ELSE <<s[1]>> \o PlainDigits(Tail(s))

\* int(text): surrounding whitespace, one sign, digits; [ok |-> FALSE] is
\* the ValueError
IntOf(text) ==
    LET body == Strip(text)
        signed == Len(body) > 0 /\ body[1] \in {"+", "-"}
        digits == PlainDigits(IF signed THEN Tail(body) ELSE body)
    IN IF Len(digits) = 0 THEN [ok |-> FALSE, v |-> 0]
       ELSE [ok |-> TRUE,
             v |-> IF signed /\ body[1] = "-" THEN 0 - DigitsVal(digits) ELSE DigitsVal(digits)]

\* FCConfig.get_setting(key, default)
GetSetting(cfg, key, default) == DictGet(cfg.master_settings, key, default)

\* FCConfig.has_feature(feature)
HasFeature(cfg, feature) == Upper(feature) \in {Upper(f) : f \in cfg.features}

\* FCConfig.get_serial_port_with_function(function_name); NoPort is None
NoPort == [port_id |-> -1, functions |-> <<>>]
HasFunction(port, function_name) ==
    \E i \in 1..Len(port.functions) : port.functions[i] = function_name
GetSerialPortWithFunction(cfg, function_name) ==
    LET hits == {i \in 1..Len(cfg.serial_ports) : HasFunction(cfg.serial_ports[i], function_name)}
    IN IF hits = {} THEN NoPort
       ELSE cfg.serial_ports[CHOOSE i \in hits : \A j \in hits : i <= j]

-----------------------------------------------------------------------------
(* engines/firmware_validator.py *)

\* _MOTOR_PROTOCOL_MAP.get(key, set())
MotorProtocolMap(key) ==
    CASE key = <<"D","S","H","O","T","6","0","0">> -> {<<"D","S","h","o","t","6","0","0">>, <<"D","S","h","o","t","1","2","0","0">>}
      [] key = <<"D","S","H","O","T","3","0","0">> -> {<<"D","S","h","o","t","3","0","0">>, <<"D","S","h","o","t","6","0","0">>, <<"D","S","h","o","t","1","2","0","0">>}
      [] key = <<"D","S","H","O","T","1","5","0">> -> {<<"D","S","h","o","t","1","5","0">>, <<"D","S","h","o","t","3","0","0">>, <<"D","S","h","o","t","6","0","0">>, <<"D","S","h","o","t","1","2","0","0">>}
      [] key = <<"D","S","H","O","T","1","2","0","0">> -> {<<"D","S","h","o","t","1","2","0","0">>}
      [] key = <<"M","U","L","T","I","S","H","O","T">> -> {<<"M","u","l","t","i","s","h","o","t">>, <<"D","S","h","o","t","1","5","0">>, <<"D","S","h","o","t","3","0","0">>, <<"D","S","h","o","t","6","0","0">>, <<"D","S","h","o","t","1","2","0","0">>}
      [] key = <<"O","N","E","S","H","O","T","1","2","5">> ->
            {<<"O","n","e","s","h","o","t","1","2","5">>, <<"O","n","e","s","h","o","t","4","2">>, <<"M","u","l","t","i","s","h","o","t">>, <<"D","S","h","o","t","1","5","0">>, <<"D","S","h","o","t","3","0","0">>, <<"D","S","h","o","t","6","0","0">>, <<"D","S","h","o","t","1","2","0","0">>}
      [] key = <<"O","N","E","S","H","O","T","4","2">> ->
            {<<"O","n","e","s","h","o","t","4","2">>, <<"M","u","l","t","i","s","h","o","t">>, <<"D","S","h","o","t","1","5","0">>, <<"D","S","h","o","t","3","0","0">>, <<"D","S","h","o","t","6","0","0">>, <<"D","S","h","o","t","1","2","0","0">>}
      [] key = <<"P","W","M">> ->
            {<<"P","W","M">>, <<"O","n","e","s","h","o","t","1","2","5">>, <<"O","n","e","s","h","o","t","4","2">>, <<"M","u","l","t","i","s","h","o","t">>, <<"D","S","h","o","t","1","5","0">>, <<"D","S","h","o","t","3","0","0">>, <<"D","S","h","o","t","6","0","0">>, <<"D","S","h","o","t","1","2","0","0">>}
      [] OTHER -> {}

\* _SERIALRX_MAP.get(key, set())
SerialRxMap(key) ==
    CASE key = <<"C","R","S","F">> -> {<<"C","R","S","F">>}
      [] key = <<"S","B","U","S">> -> {<<"S","B","U","S">>}
      [] key = <<"I","B","U","S">> -> {<<"I","B","U","S">>}
      [] key = <<"S","P","E","K","T","R","U","M","1","0","2","4">> -> {<<"D","S","M","X">>, <<"D","S","M","2">>}
      [] key = <<"S","P","E","K","T","R","U","M","2","0","4","8">> -> {<<"D","S","M","X">>, <<"D","S","M","2">>}
      [] key = <<"S","U","M","D">> -> {<<"S","U","M","D">>}
      [] key = <<"S","U","M","H">> -> {<<"S","U","M","H">>}
      [] key = <<"F","P","O","R","T">> -> {<<"F","P","O","R","T">>}
      [] key = <<"G","H","S","T">> -> {<<"G","H","S","T">>}
      [] OTHER -> {}

\* a check that returns None
Nothing == [kind |-> "none"]

\* _result(check_id, name, severity, passed, message): details is left at
\* its default, the empty dict
FwResult(check_id, name, severity, passed) ==
    [kind |-> "result", constraint_id |-> check_id, constraint_name |-> name,
     severity |-> severity, passed |-> passed, details |-> <<>>]

\* component.get(field, "") read as text
TextSpec(comp, field) == ComponentGet(comp, field, PyStr(<<>>))

\* fw_001
fw_check_motor_protocol(cfg, b) ==
    LET esc == GetComponent(b, s_esc)
        fc_protocol == Upper(GetSetting(cfg, "motor_pwm_protocol", PyStr(<<>>)).v)
        esc_protocol == TextSpec(esc, <<"p","r","o","t","o","c","o","l">>)
    IN IF esc = NoComponent THEN Nothing
       ELSE IF Len(fc_protocol) = 0 \/ ~Truthy(esc_protocol) THEN Nothing
       ELSE FwResult(<<"f","w","_","0","0","1">>, "Motor protocol match", "critical",
                     esc_protocol.v \in MotorProtocolMap(fc_protocol))

\* fw_002
fw_check_blheli_s_dshot1200(cfg, b) ==
    LET esc == GetComponent(b, s_esc)
        esc_firmware == TextSpec(esc, s_firmware)
        fc_protocol == Upper(GetSetting(cfg, "motor_pwm_protocol", PyStr(<<>>)).v)
    IN IF esc = NoComponent THEN Nothing
       ELSE IF esc_firmware # PyStr(<<"B","L","H","e","l","i","_","S">>) \/ fc_protocol # <<"D","S","H","O","T","1","2","0","0">> THEN Nothing
       ELSE FwResult(<<"f","w","_","0","0","2">>, "BLHeli_S DShot1200 incompatibility", "critical", FALSE)

\* fw_003
fw_check_bidir_dshot(cfg, b) ==
    LET bidir == GetSetting(cfg, "dshot_bidir", None)
        esc == GetComponent(b, s_esc)
        esc_firmware == TextSpec(esc, s_firmware)
    IN IF bidir # PyStr(<<"O","N">>) THEN Nothing
       ELSE IF esc = NoComponent THEN Nothing
       ELSE FwResult(<<"f","w","_","0","0","3">>, "Bidirectional DShot firmware", "warning",
                     esc_firmware \in {PyStr(<<"B","L","H","e","l","i","_","3","2">>), PyStr(<<"A","M","3","2">>)})

\* fw_004
fw_check_receiver_protocol(cfg, b) ==
    LET rx == GetComponent(b, s_receiver)
        fc_serialrx == Upper(GetSetting(cfg, "serialrx_provider", PyStr(<<>>)).v)
        rx_protocol == TextSpec(rx, <<"o","u","t","p","u","t","_","p","r","o","t","o","c","o","l">>)
    IN IF rx = NoComponent THEN Nothing
       ELSE IF Len(fc_serialrx) = 0 \/ ~Truthy(rx_protocol) THEN Nothing
       ELSE FwResult(<<"f","w","_","0","0","4">>, "Receiver protocol match", "critical",
                     rx_protocol.v \in SerialRxMap(fc_serialrx))

\* fw_005
fw_check_receiver_uart(cfg, b) ==
    IF GetComponent(b, s_receiver) = NoComponent THEN Nothing
    ELSE IF Len(cfg.serial_ports) = 0 THEN Nothing
    ELSE FwResult(<<"f","w","_","0","0","5">>, "Receiver UART assigned", "critical",
                  GetSerialPortWithFunction(cfg, <<"S","E","R","I","A","L","_","R","X">>) # NoPort)

\* fw_006
fw_check_sbus_inversion(cfg, b) ==
    LET rx == GetComponent(b, s_receiver)
        fc == GetComponent(b, s_fc)
        mcu == TextSpec(fc, <<"m","c","u">>)
    IN IF rx = NoComponent \/ fc = NoComponent THEN Nothing
       ELSE IF TextSpec(rx, <<"o","u","t","p","u","t","_","p","r","o","t","o","c","o","l">>) # PyStr(<<"S","B","U","S">>) THEN Nothing
       ELSE IF ~Contains(mcu.v, <<"F","4","0","5">>) /\ ~Contains(mcu.v, <<"F","4","1","1">>) THEN Nothing
       ELSE FwResult(<<"f","w","_","0","0","6">>, "SBUS inversion on F4", "warning",
                     GetSetting(cfg, "serialrx_inverted", PyStr(<<"O","F","F">>)) = PyStr(<<"O","N">>))

\* fw_007
fw_check_vtx_uart(cfg, b) ==
    LET vtx == GetComponent(b, s_vtx)
        vtx_type == Lower(TextSpec(vtx, <<"t","y","p","e">>).v)
    IN IF vtx = NoComponent THEN Nothing
       ELSE IF Contains(vtx_type, <<"d","i","g","i","t","a","l">>) THEN Nothing
       ELSE IF Len(cfg.serial_ports) = 0 THEN Nothing
       ELSE FwResult(<<"f","w","_","0","0","7">>, "VTX UART assigned", "warning",
                     \/ GetSerialPortWithFunction(cfg, <<"V","T","X","_","S","M","A","R","T","A","U","D","I","O">>) # NoPort
                     \/ GetSerialPortWithFunction(cfg, <<"V","T","X","_","T","R","A","M","P">>) # NoPort)

\* fw_008
fw_check_dji_msp(cfg, b) ==
    LET vtx == GetComponent(b, s_vtx)
        vtx_system == Lower(TextSpec(vtx, <<"s","y","s","t","e","m">>).v)
        needs_msp == \E kw \in {<<"d","j","i">>, <<"h","d","z","e","r","o">>, <<"w","a","l","k","s","n","a","i","l">>, <<"a","v","a","t","a","r">>} : Contains(vtx_system, kw)
    IN IF vtx = NoComponent THEN Nothing
       ELSE IF ~needs_msp THEN Nothing
       ELSE IF Len(cfg.serial_ports) = 0 THEN Nothing
       ELSE FwResult(<<"f","w","_","0","0","8">>, "Digital VTX MSP DisplayPort", "critical",
                     \/ GetSerialPortWithFunction(cfg, <<"V","T","X","_","M","S","P">>) # NoPort
                     \/ GetSerialPortWithFunction(cfg, <<"M","S","P","_","D","I","S","P","L","A","Y","P","O","R","T">>) # NoPort)

\* fw_009: int(vtx_type_setting) stands outside any try
fw_check_vtx_type_match(cfg, b) ==
    LET vtx == GetComponent(b, s_vtx)
        vtx_type_setting == GetSetting(cfg, "vtx_table_bands", None)
        vtx_hw_type == Lower(TextSpec(vtx, <<"t","y","p","e">>).v)
    IN IF vtx = NoComponent THEN Nothing
       ELSE IF ~Truthy(vtx_type_setting) THEN Nothing
       ELSE IF ~Contains(vtx_hw_type, <<"d","i","g","i","t","a","l">>) THEN Nothing
       ELSE IF ~IntOf(vtx_type_setting.v).ok THEN Raise("ValueError")
       ELSE IF IntOf(vtx_type_setting.v).v > 0
            THEN FwResult(<<"f","w","_","0","0","9">>, "VTX type match", "warning", TRUE)
       ELSE Nothing

\* fw_010
fw_check_battery_min_voltage(cfg, b) ==
    LET min_v == GetSetting(cfg, "vbat_min_cell_voltage", None)
    IN IF ~Truthy(min_v) THEN Nothing
       ELSE IF ~IntOf(min_v.v).ok THEN Nothing
       ELSE FwResult(<<"f","w","_","0","1","0">>, "Battery min cell voltage", "warning",
                     310 <= IntOf(min_v.v).v /\ IntOf(min_v.v).v <= 360)

\* fw_011
fw_check_battery_cell_count(cfg, b) ==
    LET battery == GetComponent(b, s_battery)
        max_v == GetSetting(cfg, "vbat_max_cell_voltage", None)
    IN IF battery = NoComponent THEN Nothing
       ELSE IF ~Truthy(ComponentGet(battery, s_cell_count, None)) THEN Nothing
       ELSE IF ~Truthy(max_v) THEN Nothing
       ELSE IF ~IntOf(max_v.v).ok THEN Nothing
       ELSE FwResult(<<"f","w","_","0","1","1">>, "Battery cell detection", "warning",
                     410 <= IntOf(max_v.v).v /\ IntOf(max_v.v).v <= 440)

\* fw_012
fw_check_pid_loop_rate(cfg, b) ==
    LET pid_denom == GetSetting(cfg, "pid_process_denom", None)
        fc_protocol == Upper(GetSetting(cfg, "motor_pwm_protocol", PyStr(<<>>)).v)
    IN IF ~Truthy(pid_denom) THEN Nothing
       ELSE IF ~IntOf(pid_denom.v).ok THEN Nothing
       ELSE IF fc_protocol = <<"D","S","H","O","T","1","2","0","0">> /\ IntOf(pid_denom.v).v > 2
            THEN FwResult(<<"f","w","_","0","1","2">>, "PID loop rate for DShot", "warning", FALSE)
       ELSE IF fc_protocol \in {<<"D","S","H","O","T","6","0","0">>, <<"D","S","H","O","T","3","0","0">>} /\ IntOf(pid_denom.v).v > 4
            THEN FwResult(<<"f","w","_","0","1","2">>, "PID loop rate for DShot", "warning", FALSE)
       ELSE FwResult(<<"f","w","_","0","1","2">>, "PID loop rate for DShot", "warning", TRUE)

\* fw_013
fw_check_gyro_filter(cfg, b) ==
    LET lpf1 == GetSetting(cfg, "gyro_lpf1_static_hz", None)
    IN IF ~Truthy(lpf1) THEN Nothing
       ELSE IF ~IntOf(lpf1.v).ok THEN Nothing
       ELSE IF IntOf(lpf1.v).v = 0 THEN FwResult(<<"f","w","_","0","1","3">>, "Gyro filter range", "info", TRUE)
       ELSE IF Contains(b.drone_class, <<"w","h","o","o","p">>) /\ IntOf(lpf1.v).v > 200
            THEN FwResult(<<"f","w","_","0","1","3">>, "Gyro filter range", "info", FALSE)
       ELSE IF Contains(b.drone_class, <<"7","i","n","c","h">>) /\ IntOf(lpf1.v).v > 200
            THEN FwResult(<<"f","w","_","0","1","3">>, "Gyro filter range", "info", FALSE)
       ELSE FwResult(<<"f","w","_","0","1","3">>, "Gyro filter range", "info", TRUE)

\* fw_014: int(rpm_filter) stands outside any try
fw_check_rpm_filtering(cfg, b) ==
    LET bidir == GetSetting(cfg, "dshot_bidir", None)
        rpm_filter == GetSetting(cfg, "rpm_filter_harmonics", None)
        esc == GetComponent(b, s_esc)
    IN IF bidir # PyStr(<<"O","N">>) THEN Nothing
       ELSE IF esc = NoComponent THEN Nothing
       ELSE IF TextSpec(esc, s_firmware) \notin {PyStr(<<"B","L","H","e","l","i","_","3","2">>), PyStr(<<"A","M","3","2">>)} THEN Nothing
       ELSE IF ~Truthy(rpm_filter) THEN FwResult(<<"f","w","_","0","1","4">>, "RPM filtering", "info", FALSE)
       ELSE IF ~IntOf(rpm_filter.v).ok THEN Raise("ValueError")
       ELSE FwResult(<<"f","w","_","0","1","4">>, "RPM filtering", "info", IntOf(rpm_filter.v).v > 0)

\* fw_015
fw_check_osd_feature(cfg, b) ==
    LET vtx == GetComponent(b, s_vtx)
        fc == GetComponent(b, s_fc)
        fc_osd == TextSpec(fc, <<"o","s","d">>)
    IN IF vtx = NoComponent \/ fc = NoComponent THEN Nothing
       ELSE IF ~Truthy(fc_osd) \/ fc_osd = PyStr(<<"n","o","n","e">>) THEN Nothing
       ELSE FwResult(<<"f","w","_","0","1","5">>, "OSD feature", "warning", HasFeature(cfg, <<"O","S","D">>))

\* fw_016
fw_check_telemetry_feature(cfg, b) ==
    LET rx == GetComponent(b, s_receiver)
    IN IF rx = NoComponent THEN Nothing
       ELSE IF ~Truthy(ComponentGet(rx, <<"t","e","l","e","m","e","t","r","y">>, PyBool(FALSE))) THEN Nothing
       ELSE FwResult(<<"f","w","_","0","1","6">>, "Telemetry feature", "info", HasFeature(cfg, <<"T","E","L","E","M","E","T","R","Y">>))

\* fw_017
fw_check_esc_sensor(cfg, b) ==
    LET esc == GetComponent(b, s_esc)
    IN IF esc = NoComponent THEN Nothing
       ELSE IF ~Truthy(ComponentGet(esc, s_current_sensor, PyBool(FALSE))) THEN Nothing
       ELSE FwResult(<<"f","w","_","0","1","7">>, "ESC sensor feature", "info",
                     GetSerialPortWithFunction(cfg, <<"E","S","C","_","S","E","N","S","O","R">>) # NoPort)

\* a variant of the test that knows no telemetry conflict
FunctionsConflictNoTelemetry(f1, f2) ==
    \/ {f1, f2} \cap {<<"S","E","R","I","A","L","_","R","X">>, <<"G","P","S">>} = {<<"S","E","R","I","A","L","_","R","X">>, <<"G","P","S">>}
    \/ StartsWith(f1, <<"V","T","X","_">>) /\ StartsWith(f2, <<"V","T","X","_">>)

\* the test fw_018 makes on two functions of one port
FunctionsConflict(f1, f2) ==
    \/ {f1, f2} \cap {<<"S","E","R","I","A","L","_","R","X">>, <<"G","P","S">>} = {<<"S","E","R","I","A","L","_","R","X">>, <<"G","P","S">>}
    \/ StartsWith(f1, <<"V","T","X","_">>) /\ StartsWith(f2, <<"V","T","X","_">>)
    \/ StartsWith(f1, <<"T","E","L","E","M","E","T","R","Y","_">>) /\ StartsWith(f2, <<"T","E","L","E","M","E","T","R","Y","_">>)

\* the conflicting pairs of one port: positions i < j of its active functions
ConflictingPairs(port) ==
    LET active == SelectSeq(port.functions, LAMBDA f : f # <<"U","N","U","S","E","D">>)
    IN {<<i, j>> \in (1..Len(active)) \X (1..Len(active)) :
            i < j /\ FunctionsConflict(active[i], active[j])}

\* the entries one port adds to conflicts, in the order of the two loops
PortConflicts(port) ==
    LET active == SelectSeq(port.functions, LAMBDA f : f # <<"U","N","U","S","E","D">>)
        n == Len(active)
        pairs == [k \in 1..(n * n) |-> <<((k - 1) \div n) + 1, ((k - 1) % n) + 1>>]
        hits == SelectSeq(pairs, LAMBDA p : p \in ConflictingPairs(port))
    IN [k \in 1..Len(hits) |->
            <<"U","A","R","T">> \o IntStr(port.port_id) \o <<":"," ">> \o active[hits[k][1]]
            \o <<" ","+"," ">> \o active[hits[k][2]]]

\* conflicts after the loop over the ports
RECURSIVE Conflicts(_)
Conflicts(ports) ==
    IF Len(ports) = 0 THEN <<>>
    ELSE PortConflicts(ports[1]) \o Conflicts(Tail(ports))

\* separator.join(texts)
RECURSIVE Join(_, _)
Join(texts, separator) ==
    IF Len(texts) = 0 THEN <<>>
    ELSE IF Len(texts) = 1 THEN texts[1]
    ELSE texts[1] \o separator \o Join(Tail(texts), separator)

\* _result(...) with its message kept
FwResultWithMessage(check_id, name, severity, passed, message) ==
    [kind |-> "result", constraint_id |-> check_id, constraint_name |-> name,
     severity |-> severity, passed |-> passed, details |-> <<>>, message |-> message]

\* the result of fw_018 from the conflicts found
SerialConflictsResult(conflicts) ==
    IF Len(conflicts) > 0
    THEN FwResultWithMessage(<<"f","w","_","0","1","8">>, "Serial port conflicts", "critical", FALSE,
                             <<"C","o","n","f","l","i","c","t","i","n","g"," ","s","e","r","i","a","l"," ","a","s","s","i","g","n","m","e","n","t","s",":"," ">> \o Join(conflicts, <<";"," ">>))
    ELSE FwResultWithMessage(<<"f","w","_","0","1","8">>, "Serial port conflicts", "critical", TRUE,
                             <<"N","o"," ","c","o","n","f","l","i","c","t","i","n","g"," ","s","e","r","i","a","l"," ","p","o","r","t"," ","a","s","s","i","g","n","m","e","n","t","s">>)

\* fw_018
fw_check_serial_conflicts(cfg, b) ==
    IF Len(cfg.serial_ports) = 0 THEN Nothing
    ELSE SerialConflictsResult(Conflicts(cfg.serial_ports))

\* a variant of fw_019 that does not look at the firmware family
fw_check_inav_nav_settings_any_firmware(cfg, b) ==
    LET nav_max_speed == GetSetting(cfg, "nav_mc_vel_xy_max", None)
    IN IF ~Truthy(nav_max_speed) THEN Nothing
       ELSE IF ~IntOf(nav_max_speed.v).ok THEN Nothing
       ELSE IF Contains(b.drone_class, <<"7","i","n","c","h">>) \/ Contains(b.drone_class, <<"l","r">>)
            THEN FwResult(<<"f","w","_","0","1","9">>, "iNav nav speed settings", "warning",
                          ~(IntOf(nav_max_speed.v).v < 500))
       ELSE IF Contains(b.drone_class, <<"w","h","o","o","p">>) /\ IntOf(nav_max_speed.v).v > 800
            THEN FwResult(<<"f","w","_","0","1","9">>, "iNav nav speed settings", "warning", FALSE)
       ELSE Nothing

\* fw_019
fw_check_inav_nav_settings(cfg, b) ==
    LET nav_max_speed == GetSetting(cfg, "nav_mc_vel_xy_max", None)
    IN IF cfg.firmware # <<"I","N","A","V">> THEN Nothing
       ELSE IF ~Truthy(nav_max_speed) THEN Nothing
       ELSE IF ~IntOf(nav_max_speed.v).ok THEN Nothing
       ELSE IF Contains(b.drone_class, <<"7","i","n","c","h">>) \/ Contains(b.drone_class, <<"l","r">>)
            THEN FwResult(<<"f","w","_","0","1","9">>, "iNav nav speed settings", "warning",
                          ~(IntOf(nav_max_speed.v).v < 500))
       ELSE IF Contains(b.drone_class, <<"w","h","o","o","p">>) /\ IntOf(nav_max_speed.v).v > 800
            THEN FwResult(<<"f","w","_","0","1","9">>, "iNav nav speed settings", "warning", FALSE)
       ELSE Nothing

\* fw_020
fw_check_inav_fixed_wing(cfg, b) ==
    LET platform == GetSetting(cfg, "platform_type", None)
    IN IF cfg.firmware # <<"I","N","A","V">> THEN Nothing
       ELSE IF b.drone_class # <<"f","l","y","i","n","g","_","w","i","n","g">> THEN Nothing
       ELSE IF ~Truthy(platform) THEN Nothing
       ELSE FwResult(<<"f","w","_","0","2","0">>, "iNav fixed-wing platform", "warning",
                     Upper(platform.v) \in {<<"A","I","R","P","L","A","N","E">>, <<"F","L","Y","I","N","G","_","W","I","N","G">>})

\* ALL_CHECKS[i - 1](config, build)
AllChecks(i, cfg, b) ==
    CASE i = 1 -> fw_check_motor_protocol(cfg, b)
      [] i = 2 -> fw_check_blheli_s_dshot1200(cfg, b)
      [] i = 3 -> fw_check_bidir_dshot(cfg, b)
      [] i = 4 -> fw_check_receiver_protocol(cfg, b)
      [] i = 5 -> fw_check_receiver_uart(cfg, b)
      [] i = 6 -> fw_check_sbus_inversion(cfg, b)
      [] i = 7 -> fw_check_vtx_uart(cfg, b)
      [] i = 8 -> fw_check_dji_msp(cfg, b)
      [] i = 9 -> fw_check_vtx_type_match(cfg, b)
      [] i = 10 -> fw_check_battery_min_voltage(cfg, b)
      [] i = 11 -> fw_check_battery_cell_count(cfg, b)
      [] i = 12 -> fw_check_pid_loop_rate(cfg, b)
      [] i = 13 -> fw_check_gyro_filter(cfg, b)
      [] i = 14 -> fw_check_rpm_filtering(cfg, b)
      [] i = 15 -> fw_check_osd_feature(cfg, b)
      [] i = 16 -> fw_check_telemetry_feature(cfg, b)
      [] i = 17 -> fw_check_esc_sensor(cfg, b)
      [] i = 18 -> fw_check_serial_conflicts(cfg, b)
      [] i = 19 -> fw_check_inav_nav_settings(cfg, b)
      [] i = 20 -> fw_check_inav_fixed_wing(cfg, b)
NumChecks == 20

\* the loop of validate_firmware_config: a check's exception leaves it
RECURSIVE RunChecks(_, _, _, _), AppendCheck(_, _, _, _, _)
AppendCheck(i, cfg, b, results, r) ==
    IF r.kind = "raise" THEN r
    ELSE RunChecks(i + 1, cfg, b, IF r = Nothing THEN results ELSE Append(results, r))
RunChecks(i, cfg, b, results) ==
    IF i > NumChecks THEN [kind |-> "report", build_name |-> b.name, results |-> results]
    ELSE AppendCheck(i, cfg, b, results, AllChecks(i, cfg, b))

\* validate_firmware_config(config, build)
validate_firmware_config(cfg, b) == RunChecks(1, cfg, b, <<>>)

-----------------------------------------------------------------------------
(* engines/discrepancy.py *)

\* Discrepancy(id, component_type, category, severity, ...): the outcome of
\* one discrepancy check; the values found, the message and the fix are text
\* for the reader and are left out
Discrepancy(id, component_type, category, severity) ==
    [kind |-> "discrepancy", id |-> id, component_type |-> component_type,
     category |-> category, severity |-> severity]

\* Build.nickname, a text that is empty when the build has none
Nickname(b) == b.nickname

\* the MCU family shorthand of disc_001
McuShort(fleet_mcu) == Replace(Replace(Upper(fleet_mcu), <<"S","T","M","3","2">>, <<>>), <<"A","T","3","2">>, <<>>)
McuFamily(mcu_short) == IF Len(mcu_short) >= 2 THEN Take(mcu_short, 2) ELSE <<>>

\* disc_001
disc_check_fc_board(cfg, b) ==
    LET fc == GetComponent(b, s_fc)
        fleet_mcu == TextSpec(fc, <<"m","c","u">>)
    IN IF fc = NoComponent THEN Nothing
       ELSE IF ~Truthy(fleet_mcu) \/ Len(cfg.board_name) = 0 THEN Nothing
       ELSE IF Len(McuShort(fleet_mcu.v)) > 0
               /\ Contains(Upper(cfg.board_name), McuShort(fleet_mcu.v)) THEN Nothing
       ELSE IF Len(McuFamily(McuShort(fleet_mcu.v))) > 0
               /\ Contains(Upper(cfg.board_name), McuFamily(McuShort(fleet_mcu.v))) THEN Nothing
       ELSE Discrepancy(<<"d","i","s","c","_","0","0","1">>, s_fc, "identity", "critical")

\* a variant of disc_002 that looks the provider up as it is spelled in
\* the snapshot
disc_check_receiver_protocol_as_spelled(cfg, b) ==
    LET rx == GetComponent(b, s_receiver)
        fc_serialrx == GetSetting(cfg, "serialrx_provider", PyStr(<<>>))
        fleet_protocol == TextSpec(rx, <<"o","u","t","p","u","t","_","p","r","o","t","o","c","o","l">>)
    IN IF rx = NoComponent THEN Nothing
       ELSE IF ~Truthy(fc_serialrx) \/ ~Truthy(fleet_protocol) THEN Nothing
       ELSE IF fleet_protocol.v \in SerialRxMap(fc_serialrx.v) THEN Nothing
       ELSE Discrepancy(<<"d","i","s","c","_","0","0","2">>, s_receiver, "protocol", "critical")

\* disc_002
disc_check_receiver_protocol(cfg, b) ==
    LET rx == GetComponent(b, s_receiver)
        fc_serialrx == GetSetting(cfg, "serialrx_provider", PyStr(<<>>))
        fleet_protocol == TextSpec(rx, <<"o","u","t","p","u","t","_","p","r","o","t","o","c","o","l">>)
    IN IF rx = NoComponent THEN Nothing
       ELSE IF ~Truthy(fc_serialrx) \/ ~Truthy(fleet_protocol) THEN Nothing
       ELSE IF fleet_protocol.v \in SerialRxMap(Upper(fc_serialrx.v)) THEN Nothing
       ELSE Discrepancy(<<"d","i","s","c","_","0","0","2">>, s_receiver, "protocol", "critical")

\* a variant that decides on the analog indicator even when the digital one
\* is shown as well
disc_check_vtx_type_guessing(cfg, b) ==
    LET vtx == GetComponent(b, s_vtx)
        fleet_type == Lower(TextSpec(vtx, <<"t","y","p","e">>).v)
        fleet_is_digital == Contains(fleet_type, <<"d","i","g","i","t","a","l">>)
        config_is_analog == \/ GetSerialPortWithFunction(cfg, <<"V","T","X","_","S","M","A","R","T","A","U","D","I","O">>) # NoPort
                            \/ GetSerialPortWithFunction(cfg, <<"V","T","X","_","T","R","A","M","P">>) # NoPort
        config_is_digital == \/ GetSerialPortWithFunction(cfg, <<"V","T","X","_","M","S","P">>) # NoPort
                             \/ GetSerialPortWithFunction(cfg, <<"M","S","P","_","D","I","S","P","L","A","Y","P","O","R","T">>) # NoPort
    IN IF vtx = NoComponent THEN Nothing
       ELSE IF Len(fleet_type) = 0 THEN Nothing
       ELSE IF Len(cfg.serial_ports) = 0 THEN Nothing
       ELSE IF ~config_is_analog /\ ~config_is_digital THEN Nothing
       ELSE IF fleet_is_digital /\ config_is_analog
            THEN Discrepancy(<<"d","i","s","c","_","0","0","3">>, s_vtx, "identity", "critical")
       ELSE IF ~fleet_is_digital /\ config_is_digital /\ ~config_is_analog
            THEN Discrepancy(<<"d","i","s","c","_","0","0","3">>, s_vtx, "identity", "critical")
       ELSE Nothing

\* disc_003
disc_check_vtx_type(cfg, b) ==
    LET vtx == GetComponent(b, s_vtx)
        fleet_type == Lower(TextSpec(vtx, <<"t","y","p","e">>).v)
        fleet_is_digital == Contains(fleet_type, <<"d","i","g","i","t","a","l">>)
        config_is_analog == \/ GetSerialPortWithFunction(cfg, <<"V","T","X","_","S","M","A","R","T","A","U","D","I","O">>) # NoPort
                            \/ GetSerialPortWithFunction(cfg, <<"V","T","X","_","T","R","A","M","P">>) # NoPort
        config_is_digital == \/ GetSerialPortWithFunction(cfg, <<"V","T","X","_","M","S","P">>) # NoPort
                             \/ GetSerialPortWithFunction(cfg, <<"M","S","P","_","D","I","S","P","L","A","Y","P","O","R","T">>) # NoPort
    IN IF vtx = NoComponent THEN Nothing
       ELSE IF Len(fleet_type) = 0 THEN Nothing
       ELSE IF Len(cfg.serial_ports) = 0 THEN Nothing
       ELSE IF ~config_is_analog /\ ~config_is_digital THEN Nothing
       ELSE IF fleet_is_digital /\ config_is_analog /\ ~config_is_digital
            THEN Discrepancy(<<"d","i","s","c","_","0","0","3">>, s_vtx, "identity", "critical")
       ELSE IF ~fleet_is_digital /\ config_is_digital /\ ~config_is_analog
            THEN Discrepancy(<<"d","i","s","c","_","0","0","3">>, s_vtx, "identity", "critical")
       ELSE Nothing

\* disc_004
disc_check_motor_protocol(cfg, b) ==
    LET esc == GetComponent(b, s_esc)
        fc_protocol == Upper(GetSetting(cfg, "motor_pwm_protocol", PyStr(<<>>)).v)
        esc_protocol == TextSpec(esc, <<"p","r","o","t","o","c","o","l">>)
    IN IF esc = NoComponent THEN Nothing
       ELSE IF Len(fc_protocol) = 0 \/ ~Truthy(esc_protocol) THEN Nothing
       ELSE IF esc_protocol.v \in MotorProtocolMap(fc_protocol) THEN Nothing
       ELSE Discrepancy(<<"d","i","s","c","_","0","0","4">>, s_esc, "protocol", "warning")

\* disc_005
disc_check_bidir_dshot_firmware(cfg, b) ==
    LET esc == GetComponent(b, s_esc)
        esc_firmware == TextSpec(esc, s_firmware)
    IN IF GetSetting(cfg, "dshot_bidir", None) # PyStr(<<"O","N">>) THEN Nothing
       ELSE IF esc = NoComponent THEN Nothing
       ELSE IF ~Truthy(esc_firmware) THEN Nothing
       ELSE IF esc_firmware \in {PyStr(<<"B","L","H","e","l","i","_","3","2">>), PyStr(<<"A","M","3","2">>)} THEN Nothing
       ELSE Discrepancy(<<"d","i","s","c","_","0","0","5">>, s_esc, "feature", "warning")

\* disc_006: an undeclared chemistry reads as "LiPo"
disc_check_battery_cells(cfg, b) ==
    LET battery == GetComponent(b, s_battery)
        max_v == GetSetting(cfg, "vbat_max_cell_voltage", None)
        battery_type == ComponentGet(battery, s_chemistry, PyStr(<<"L","i","P","o">>))
    IN IF battery = NoComponent THEN Nothing
       ELSE IF ~Truthy(ComponentGet(battery, s_cell_count, None)) THEN Nothing
       ELSE IF ~Truthy(max_v) THEN Nothing
       ELSE IF ~IntOf(max_v.v).ok THEN Nothing
       ELSE IF battery_type = PyStr(<<"L","i","H","V">>) /\ IntOf(max_v.v).v < 430
            THEN Discrepancy(<<"d","i","s","c","_","0","0","6">>, s_battery, "feature", "warning")
       ELSE IF battery_type # PyStr(<<"L","i","H","V">>) /\ IntOf(max_v.v).v >= 435
            THEN Discrepancy(<<"d","i","s","c","_","0","0","6">>, s_battery, "feature", "warning")
       ELSE Nothing

\* the craft name disc_007 reads: "name", then "craft_name"
CraftName(cfg) ==
    IF Truthy(GetSetting(cfg, "name", PyStr(<<>>))) THEN GetSetting(cfg, "name", PyStr(<<>>))
    ELSE GetSetting(cfg, "craft_name", PyStr(<<>>))

\* the comparison of disc_007 on the three lowered and stripped names
NamesAgree(craft_lower, build_name, build_nickname) ==
    \/ craft_lower = build_name \/ craft_lower = build_nickname
    \/ Contains(build_name, craft_lower) \/ Contains(craft_lower, build_name)
    \/ /\ Len(build_nickname) > 0
       /\ (Contains(build_nickname, craft_lower) \/ Contains(craft_lower, build_nickname))

\* disc_007
disc_check_craft_name(cfg, b) ==
    IF ~Truthy(CraftName(cfg)) THEN Nothing
    ELSE IF NamesAgree(Strip(Lower(CraftName(cfg).v)), Strip(Lower(b.name)),
                       Strip(Lower(Nickname(b)))) THEN Nothing
    ELSE Discrepancy(<<"d","i","s","c","_","0","0","7">>, s_fc, "identity", "info")

\* disc_008
disc_check_gps_presence(cfg, b) ==
    LET fleet_has_gps == GetComponent(b, s_gps) # NoComponent
        config_has_gps == \/ HasFeature(cfg, <<"G","P","S">>)
                          \/ GetSerialPortWithFunction(cfg, <<"G","P","S">>) # NoPort
    IN IF fleet_has_gps = config_has_gps THEN Nothing
       ELSE Discrepancy(<<"d","i","s","c","_","0","0","8">>, s_gps, "feature", "info")

\* disc_009: an undeclared current_sensor reads as False
disc_check_esc_telemetry(cfg, b) ==
    LET esc == GetComponent(b, s_esc)
        fleet_has_sensor == ComponentGet(esc, s_current_sensor, PyBool(FALSE))
        config_has_esc_sensor == \/ HasFeature(cfg, <<"E","S","C","_","S","E","N","S","O","R">>)
                                 \/ GetSerialPortWithFunction(cfg, <<"E","S","C","_","S","E","N","S","O","R">>) # NoPort
    IN IF esc = NoComponent THEN Nothing
       ELSE IF PyEq(fleet_has_sensor, PyBool(config_has_esc_sensor)) THEN Nothing
       ELSE Discrepancy(<<"d","i","s","c","_","0","0","9">>, s_esc, "feature", "info")

\* the keys of resource_mappings that start with "MOTOR "
MotorResources(cfg) == {k \in DOMAIN cfg.resource_mappings : StartsWith(k, <<"M","O","T","O","R"," ">>)}

\* disc_010
disc_check_motor_count(cfg, b) ==
    IF DOMAIN cfg.resource_mappings = {} THEN Nothing
    ELSE IF Cardinality(MotorResources(cfg)) = 0 THEN Nothing
    ELSE IF Cardinality(MotorResources(cfg)) = MotorCount(b) THEN Nothing
    ELSE Discrepancy(<<"d","i","s","c","_","0","1","0">>, s_motor, "identity", "warning")

\* ALL_DISCREPANCY_CHECKS[i - 1](config, build)
AllDiscrepancyChecks(i, cfg, b) ==
    CASE i = 1 -> disc_check_fc_board(cfg, b)
      [] i = 2 -> disc_check_receiver_protocol(cfg, b)
      [] i = 3 -> disc_check_vtx_type(cfg, b)
      [] i = 4 -> disc_check_motor_protocol(cfg, b)
      [] i = 5 -> disc_check_bidir_dshot_firmware(cfg, b)
      [] i = 6 -> disc_check_battery_cells(cfg, b)
      [] i = 7 -> disc_check_craft_name(cfg, b)
      [] i = 8 -> disc_check_gps_presence(cfg, b)
      [] i = 9 -> disc_check_esc_telemetry(cfg, b)
      [] i = 10 -> disc_check_motor_count(cfg, b)
NumDiscrepancyChecks == 10

\* the loop of detect_discrepancies
RECURSIVE RunDiscrepancyChecks(_, _, _, _), AppendDiscrepancy(_, _, _, _, _)
AppendDiscrepancy(i, cfg, b, found, r) ==
    IF r.kind = "raise" THEN r
    ELSE RunDiscrepancyChecks(i + 1, cfg, b, IF r = Nothing THEN found ELSE Append(found, r))
RunDiscrepancyChecks(i, cfg, b, found) ==
    IF i > NumDiscrepancyChecks THEN [kind |-> "list", items |-> found]
    ELSE AppendDiscrepancy(i, cfg, b, found, AllDiscrepancyChecks(i, cfg, b))

\* detect_discrepancies(config, build)
detect_discrepancies(cfg, b) == RunDiscrepancyChecks(1, cfg, b, <<>>)

-----------------------------------------------------------------------------
(* The builds and configuration snapshots the two engines are run on *)

s_mcu == <<"m","c","u">>
s_osd == <<"o","s","d">>
s_protocol == <<"p","r","o","t","o","c","o","l">>
s_output_protocol == <<"o","u","t","p","u","t","_","p","r","o","t","o","c","o","l">>
s_telemetry == <<"t","e","l","e","m","e","t","r","y">>
s_type == <<"t","y","p","e">>
s_system == <<"s","y","s","t","e","m">>

\* a fleet record with every slot filled and every field declared
FullFc == Component(<<"f","c">>, s_fc, PyInt(8), (s_mcu :> PyStr(<<"S","T","M","3","2","F","4","0","5">>)) @@ (s_osd :> PyStr(<<"A","T","7","4","5","6","E">>)))
FullEsc ==
    Component(<<"e","s","c">>, s_esc, PyInt(15),
              (s_protocol :> PyStr(<<"D","S","h","o","t","6","0","0">>)) @@ (s_firmware :> PyStr(<<"B","L","H","e","l","i","_","3","2">>))
              @@ (s_current_sensor :> PyBool(TRUE)))
FullReceiver ==
    Component(<<"r","x">>, s_receiver, PyInt(2),
              (s_output_protocol :> PyStr(<<"C","R","S","F">>)) @@ (s_telemetry :> PyBool(TRUE)))
AnalogVtx ==
    Component(<<"v","t","x">>, s_vtx, PyInt(5), (s_type :> PyStr(<<"a","n","a","l","o","g">>)) @@ (s_system :> PyStr(<<"a","n","a","l","o","g">>)))
FullBattery ==
    Component(<<"b","a","t">>, s_battery, PyInt(200),
              (s_cell_count :> PyInt(MinCells)) @@ (s_chemistry :> PyStr(<<"L","i","P","o">>)))
Gps == Component(<<"g","p","s">>, s_gps, PyInt(7), <<>>)

\* the same component with one declared field left out, set, or with none
Undeclared(comp, field) ==
    [comp EXCEPT !.specs = [k \in DOMAIN comp.specs \ {field} |-> comp.specs[k]]]
Declared(comp, field, value) == [comp EXCEPT !.specs = (field :> value) @@ comp.specs]
Bare(comp) == [comp EXCEPT !.specs = <<>>]

FullSlots ==
    (s_fc :> One(FullFc)) @@ (s_esc :> One(FullEsc)) @@ (s_receiver :> One(FullReceiver))
    @@ (s_vtx :> One(AnalogVtx)) @@ (s_battery :> One(FullBattery))
    @@ (s_motor :> Many([i \in 1..MaxMotors |-> Motor]))

WithoutSlot(slots, slot) == [k \in DOMAIN slots \ {slot} |-> slots[k]]
WithSlot(slots, slot, comp) == (slot :> One(comp)) @@ slots

\* the fleet records: the full one and those that differ from it in one slot
FwSlots ==
    {FullSlots}
    \cup {WithoutSlot(FullSlots, s) : s \in DOMAIN FullSlots}
    \cup {WithSlot(FullSlots, s, Bare(FullSlots[s].items[1])) :
            s \in {s_fc, s_esc, s_receiver, s_vtx, s_battery}}
    \cup {WithSlot(FullSlots, s_esc, c) :
            c \in {Declared(FullEsc, s_firmware, PyStr(<<"B","L","H","e","l","i","_","S">>)),
                   Undeclared(FullEsc, s_current_sensor),
                   Undeclared(FullEsc, s_firmware),
                   Declared(FullEsc, s_protocol, PyStr(<<"O","n","e","s","h","o","t","1","2","5">>))}}
    \cup {WithSlot(FullSlots, s_receiver, Declared(FullReceiver, s_output_protocol, PyStr(<<"S","B","U","S">>)))}
    \cup {WithSlot(FullSlots, s_vtx,
                   Declared(Declared(AnalogVtx, s_type, PyStr(<<"D","i","g","i","t","a","l">>)), s_system, PyStr(<<"D","J","I"," ","O","3">>)))}
    \cup {WithSlot(FullSlots, s_battery, c) :
            c \in {Declared(FullBattery, s_chemistry, PyStr(<<"L","i","H","V">>)),
                   Undeclared(FullBattery, s_chemistry),
                   Undeclared(FullBattery, s_cell_count)}}
    \cup {WithSlot(FullSlots, s_fc, Declared(FullFc, s_mcu, PyStr(mcu))) :
            mcu \in {<<"S","T","M","3","2","F","7","2","2">>, <<"s","t","m","3","2","h","7","4","3">>, <<"A","T","3","2","F","4","3","5">>, <<"S","T","M","3","2">>}}
    \cup {WithSlot(FullSlots, s_gps, Gps)}
    \cup {(s_motor :> Many([i \in 1..k |-> Motor])) @@ FullSlots : k \in 0..MaxMotors}

DroneClasses == {<<"5","i","n","c","h">>, <<"w","h","o","o","p">>, <<"7","i","n","c","h","_","l","r">>, <<"f","l","y","i","n","g","_","w","i","n","g">>}

FwBuilds ==
    {MkBuild(slots) : slots \in FwSlots}
    \cup {[MkBuild(FullSlots) EXCEPT !.drone_class = dc] : dc \in DroneClasses}
    \cup {[MkBuild(FullSlots) EXCEPT !.nickname = <<"R","a","c","e","r">>]}

\* SerialPortConfig
SerialPort(port_id, functions) == [port_id |-> port_id, functions |-> functions]

FullSettings ==
    [motor_pwm_protocol |-> PyStr(<<"D","S","H","O","T","6","0","0">>), dshot_bidir |-> PyStr(<<"O","N">>),
     serialrx_provider |-> PyStr(<<"C","R","S","F">>), serialrx_inverted |-> PyStr(<<"O","F","F">>),
     vtx_table_bands |-> PyStr(<<"5">>), vbat_min_cell_voltage |-> PyStr(<<"3","3","0">>),
     vbat_max_cell_voltage |-> PyStr(<<"4","3","0">>), pid_process_denom |-> PyStr(<<"2">>),
     gyro_lpf1_static_hz |-> PyStr(<<"2","5","0">>), rpm_filter_harmonics |-> PyStr(<<"3">>),
     craft_name |-> PyStr(<<"T","E","S","T">>), nav_mc_vel_xy_max |-> PyStr(<<"1","0","0","0">>),
     platform_type |-> PyStr(<<"A","i","r","p","l","a","n","e">>)]

FullPorts ==
    <<SerialPort(0, <<<<"M","S","P">>>>), SerialPort(1, <<<<"S","E","R","I","A","L","_","R","X">>>>),
      SerialPort(2, <<<<"V","T","X","_","S","M","A","R","T","A","U","D","I","O">>>>), SerialPort(3, <<<<"E","S","C","_","S","E","N","S","O","R">>>>)>>

MotorResourcesUpTo(k) == [key \in {<<"M","O","T","O","R"," ">> \o NatStr(i) : i \in 1..k} |-> <<"B","0","0">>]

\* FCConfig: a snapshot that agrees with the full fleet record
FullConfig ==
    [firmware |-> <<"B","T","F","L">>, board_name |-> <<"M","A","T","E","K","F","4","0","5">>, master_settings |-> FullSettings,
     features |-> {<<"O","S","D">>, <<"T","E","L","E","M","E","T","R","Y">>, <<"E","S","C","_","S","E","N","S","O","R">>}, serial_ports |-> FullPorts,
     resource_mappings |-> MotorResourcesUpTo(MaxMotors)]

\* text read as a number: in range, out of range, zero, and not a number
NumericSettings ==
    {"vtx_table_bands", "vbat_min_cell_voltage", "vbat_max_cell_voltage", "pid_process_denom",
     "gyro_lpf1_static_hz", "rpm_filter_harmonics", "nav_mc_vel_xy_max"}
NumericTexts == {<<"0">>, <<"8">>, <<"1","5","0">>, <<"3","0","0">>, <<"4","3","5">>, <<"a","b","c">>, <<" ","4","_","0"," ">>}

TextSettings ==
    {<<"motor_pwm_protocol", <<"D","S","H","O","T","1","2","0","0">>>>, <<"motor_pwm_protocol", <<"p","w","m">>>>,
     <<"motor_pwm_protocol", <<"D","S","H","O","T","3","0","0">>>>, <<"dshot_bidir", <<"O","F","F">>>>,
     <<"serialrx_provider", <<"S","B","U","S">>>>, <<"serialrx_provider", <<"c","r","s","f">>>>, <<"serialrx_provider", <<"J","E","T","I","E","X","B","U","S">>>>,
     <<"serialrx_provider", <<"S","P","E","K","T","R","U","M","2","0","4","8">>>>,
     <<"serialrx_inverted", <<"O","N">>>>, <<"craft_name", <<"O","t","h","e","r">>>>, <<"craft_name", <<"r","a","c","e">>>>,
     <<"name", <<"O","t","h","e","r">>>>, <<"platform_type", <<"M","U","L","T","I","R","O","T","O","R">>>>}

SettingsWithout(settings, key) == [k \in DOMAIN settings \ {key} |-> settings[k]]

FwSettings ==
    {FullSettings}
    \cup {SettingsWithout(FullSettings, key) : key \in DOMAIN FullSettings}
    \cup {(key :> PyStr(text)) @@ FullSettings : key \in NumericSettings, text \in NumericTexts}
    \cup {(kv[1] :> PyStr(kv[2])) @@ FullSettings : kv \in TextSettings}

FwPorts ==
    {FullPorts, <<>>,
     <<SerialPort(1, <<<<"S","E","R","I","A","L","_","R","X">>, <<"G","P","S">>>>)>>,
     <<SerialPort(1, <<<<"U","N","U","S","E","D">>>>), SerialPort(2, <<<<"V","T","X","_","S","M","A","R","T","A","U","D","I","O">>, <<"V","T","X","_","T","R","A","M","P">>>>)>>,
     <<SerialPort(1, <<<<"T","E","L","E","M","E","T","R","Y","_","F","R","S","K","Y">>, <<"U","N","U","S","E","D">>, <<"T","E","L","E","M","E","T","R","Y","_","L","T","M">>>>)>>,
     <<SerialPort(1, <<<<"S","E","R","I","A","L","_","R","X">>>>), SerialPort(2, <<<<"V","T","X","_","M","S","P">>>>)>>,
     <<SerialPort(1, <<<<"M","S","P","_","D","I","S","P","L","A","Y","P","O","R","T">>>>), SerialPort(2, <<<<"V","T","X","_","T","R","A","M","P">>>>)>>,
     <<SerialPort(1, <<<<"S","E","R","I","A","L","_","R","X">>>>), SerialPort(2, <<<<"G","P","S">>>>)>>,
     <<SerialPort(1, <<<<"G","P","S">>, <<"M","S","P">>, <<"S","E","R","I","A","L","_","R","X">>>>),
       SerialPort(2, <<<<"V","T","X","_","S","M","A","R","T","A","U","D","I","O">>, <<"V","T","X","_","T","R","A","M","P">>, <<"V","T","X","_","M","S","P">>>>)>>}

FwFeatures == {{}, {<<"O","S","D">>, <<"T","E","L","E","M","E","T","R","Y">>, <<"E","S","C","_","S","E","N","S","O","R">>}, {<<"o","s","d">>}, {<<"G","P","S">>, <<"O","S","D">>}, {<<"E","S","C","_","S","E","N","S","O","R">>}}

FwResources ==
    {MotorResourcesUpTo(k) : k \in 0..(MaxMotors + 1)}
    \cup {(<<"L","E","D"," ","1">> :> <<"A","0","8">>)}

\* the snapshots: the full one and those that differ from it in one part,
\* under either firmware
FwConfigs ==
    {[c EXCEPT !.firmware = fw] :
        fw \in {<<"B","T","F","L">>, <<"I","N","A","V">>},
        c \in {[FullConfig EXCEPT !.master_settings = s] : s \in FwSettings}
              \cup {[FullConfig EXCEPT !.serial_ports = p] : p \in FwPorts}
              \cup {[FullConfig EXCEPT !.features = f] : f \in FwFeatures}
              \cup {[FullConfig EXCEPT !.resource_mappings = r] : r \in FwResources}
              \cup {[FullConfig EXCEPT !.board_name = n] : n \in {<<>>, <<"I","F","L","I","G","H","T","_","B","L","I","T","Z","_","F","7","2","2">>, <<"O","M","N","I","B","U","S","F","4">>, <<"S","P","E","E","D","Y","B","E","E","F","7","V","3","_","H","7","4","3">>, <<"M","a","t","e","k","_","f","4","0","5">>}}}

-----------------------------------------------------------------------------
(* One call of each engine on a drawn build and snapshot *)

InitFw ==
    /\ build \in FwBuilds
    /\ config \in FwConfigs
    /\ fw_report = NoCall
    /\ discrepancies = NoCall
    /\ EvalIdle
    /\ ReportIdle
    /\ DiagIdle
    /\ OtherIdle

ValidateFirmware ==
    /\ fw_report = NoCall
    /\ fw_report' = validate_firmware_config(config, build)
    /\ UNCHANGED <<build, config, discrepancies, evalVars, reportVars, diagVars, otherVars>>

DetectDiscrepancies ==
    /\ discrepancies = NoCall
    /\ discrepancies' = detect_discrepancies(config, build)
    /\ UNCHANGED <<build, config, fw_report, evalVars, reportVars, diagVars, otherVars>>

NextFw == ValidateFirmware \/ DetectDiscrepancies

SpecFw == InitFw /\ [][NextFw]_vars

-----------------------------------------------------------------------------
(* Properties of the two engines *)

FwCalled == fw_report # NoCall
DiscCalled == discrepancies # NoCall

\* a setting the validator reads as a number holds text that is no number
NonNumeric(key) ==
    /\ key \in DOMAIN config.master_settings
    /\ ~IntOf(config.master_settings[key].v).ok

\* C5: whatever the settings of the snapshot hold, absent settings and
\* non-numeric text in settings read as numbers included,
\* validate_firmware_config and detect_discrepancies return normally: the
\* first a report, the second a list, never an exception.
C5_NeverRaises ==
    /\ FwCalled => fw_report.kind = "report"
    /\ DiscCalled => discrepancies.kind = "list"

\* the part of C5 that the code keeps: detect_discrepancies returns a list
C5_DetectReturns == DiscCalled => discrepancies.kind = "list"

\* both engines have run on a snapshot with non-numeric text in a setting
\* read as a number
C5_Witness ==
    /\ FwCalled
    /\ DiscCalled
    /\ \E key \in NumericSettings : NonNumeric(key)

\* the fleet record does not declare the field of the slot, or has no such slot
UndeclaredField(slot, field) ==
    \/ GetComponent(build, slot) = NoComponent
    \/ field \notin DOMAIN GetComponent(build, slot).specs
NoSetting(key) == key \notin DOMAIN config.master_settings
NoPortWith(functions) ==
    \A f \in functions : GetSerialPortWithFunction(config, f) = NoPort

\* the signal check i compares is absent from the fleet record or from the
\* snapshot. The two presence checks compare presence itself: for the GPS
\* check no absence counts, for the ESC sensor check only an ESC whose
\* current_sensor field is undeclared.
SignalAbsent(i) ==
    CASE i = 1 -> UndeclaredField(s_fc, s_mcu) \/ Len(config.board_name) = 0
      [] i = 2 -> UndeclaredField(s_receiver, s_output_protocol) \/ NoSetting("serialrx_provider")
      [] i = 3 -> \/ UndeclaredField(s_vtx, s_type)
                  \/ NoPortWith({<<"V","T","X","_","S","M","A","R","T","A","U","D","I","O">>, <<"V","T","X","_","T","R","A","M","P">>, <<"V","T","X","_","M","S","P">>, <<"M","S","P","_","D","I","S","P","L","A","Y","P","O","R","T">>})
      [] i = 4 -> UndeclaredField(s_esc, s_protocol) \/ NoSetting("motor_pwm_protocol")
      [] i = 5 -> UndeclaredField(s_esc, s_firmware) \/ NoSetting("dshot_bidir")
      [] i = 6 -> \/ UndeclaredField(s_battery, s_cell_count)
                  \/ UndeclaredField(s_battery, s_chemistry)
                  \/ NoSetting("vbat_max_cell_voltage")
      [] i = 7 -> NoSetting("name") /\ NoSetting("craft_name")
      [] i = 8 -> FALSE
      [] i = 9 -> UndeclaredField(s_esc, s_current_sensor)
      [] i = 10 -> MotorCount(build) = 0 \/ MotorResources(config) = {}

DiscrepancyIds ==
    <<<<"d","i","s","c","_","0","0","1">>, <<"d","i","s","c","_","0","0","2">>, <<"d","i","s","c","_","0","0","3">>, <<"d","i","s","c","_","0","0","4">>, <<"d","i","s","c","_","0","0","5">>,
      <<"d","i","s","c","_","0","0","6">>, <<"d","i","s","c","_","0","0","7">>, <<"d","i","s","c","_","0","0","8">>, <<"d","i","s","c","_","0","0","9">>, <<"d","i","s","c","_","0","1","0">>>>

Reported(id) ==
    \E k \in 1..Len(discrepancies.items) : discrepancies.items[k].id = id

\* C10: each of the ten discrepancy checks returns no discrepancy whenever
\* the signal it compares is absent on either side: the component or the
\* declared field missing from the fleet record, or the setting, feature,
\* port or resource data missing from the snapshot.
C10_AbsentSignalNoDiscrepancy ==
    (DiscCalled /\ discrepancies.kind = "list") =>
        \A i \in 1..NumDiscrepancyChecks :
            SignalAbsent(i) => ~Reported(DiscrepancyIds[i])

\* the part of C10 that the code keeps: the board, receiver protocol, VTX
\* type, motor protocol, ESC firmware and craft name checks stay silent on
\* an absent signal
C10_SilentChecks ==
    (DiscCalled /\ discrepancies.kind = "list") =>
        \A i \in {1, 2, 3, 4, 5, 7} :
            SignalAbsent(i) => ~Reported(DiscrepancyIds[i])

\* detect_discrepancies has run on a fleet record whose battery declares no
\* chemistry, whose ESC declares no current_sensor, or that records no motor
C10_Witness ==
    /\ DiscCalled
    /\ \/ GetComponent(build, s_battery) # NoComponent /\ UndeclaredField(s_battery, s_chemistry)
       \/ GetComponent(build, s_esc) # NoComponent /\ UndeclaredField(s_esc, s_current_sensor)
       \/ MotorCount(build) = 0

\* the identifier of firmware check i: "fw_001" .. "fw_020"
FirmwareIds ==
    <<<<"f","w","_","0","0","1">>, <<"f","w","_","0","0","2">>, <<"f","w","_","0","0","3">>, <<"f","w","_","0","0","4">>, <<"f","w","_","0","0","5">>, <<"f","w","_","0","0","6">>, <<"f","w","_","0","0","7">>, <<"f","w","_","0","0","8">>, <<"f","w","_","0","0","9">>,
      <<"f","w","_","0","1","0">>, <<"f","w","_","0","1","1">>, <<"f","w","_","0","1","2">>, <<"f","w","_","0","1","3">>, <<"f","w","_","0","1","4">>, <<"f","w","_","0","1","5">>, <<"f","w","_","0","1","6">>, <<"f","w","_","0","1","7">>, <<"f","w","_","0","1","8">>,
      <<"f","w","_","0","1","9">>, <<"f","w","_","0","2","0">>>>

FwReturned == FwCalled /\ fw_report.kind = "report"

\* the results of the firmware report that carry the identifier
FwResultsOf(id) == {k \in 1..Len(fw_report.results) : fw_report.results[k].constraint_id = id}
FwFailed(id) == \E k \in FwResultsOf(id) : ~fw_report.results[k].passed

\* a specification field or a setting that firmware check i compares is
\* absent; a slot absent from the fleet record counts as its fields being
\* absent. The checks of the serial ports alone (5, 18) compare no field and
\* no setting.
FwSignalAbsent(i) ==
    CASE i = 1 -> UndeclaredField(s_esc, s_protocol) \/ NoSetting("motor_pwm_protocol")
      [] i = 2 -> UndeclaredField(s_esc, s_firmware) \/ NoSetting("motor_pwm_protocol")
      [] i = 3 -> UndeclaredField(s_esc, s_firmware) \/ NoSetting("dshot_bidir")
      [] i = 4 -> UndeclaredField(s_receiver, s_output_protocol) \/ NoSetting("serialrx_provider")
      [] i = 5 -> FALSE
      [] i = 6 -> \/ UndeclaredField(s_receiver, s_output_protocol)
                  \/ UndeclaredField(s_fc, s_mcu)
                  \/ NoSetting("serialrx_inverted")
      [] i = 7 -> UndeclaredField(s_vtx, s_type)
      [] i = 8 -> UndeclaredField(s_vtx, s_system)
      [] i = 9 -> UndeclaredField(s_vtx, s_type) \/ NoSetting("vtx_table_bands")
      [] i = 10 -> NoSetting("vbat_min_cell_voltage")
      [] i = 11 -> UndeclaredField(s_battery, s_cell_count) \/ NoSetting("vbat_max_cell_voltage")
      [] i = 12 -> NoSetting("pid_process_denom") \/ NoSetting("motor_pwm_protocol")
      [] i = 13 -> NoSetting("gyro_lpf1_static_hz")
      [] i = 14 -> \/ UndeclaredField(s_esc, s_firmware)
                   \/ NoSetting("dshot_bidir")
                   \/ NoSetting("rpm_filter_harmonics")
      [] i = 15 -> UndeclaredField(s_fc, s_osd)
      [] i = 16 -> UndeclaredField(s_receiver, s_telemetry)
      [] i = 17 -> UndeclaredField(s_esc, s_current_sensor)
      [] i = 18 -> FALSE
      [] i = 19 -> NoSetting("nav_mc_vel_xy_max")
      [] i = 20 -> NoSetting("platform_type")

\* C11: each of the twenty firmware checks yields no result or a
\* non-failing one, never a Failed result, whenever a specification field or
\* a setting it compares is absent.
C11_AbsentFieldNeverFails ==
    FwReturned => \A i \in 1..NumChecks : FwSignalAbsent(i) => ~FwFailed(FirmwareIds[i])

\* the part of C11 that the code keeps: every check but the bidirectional
\* DShot firmware check, the SBUS inversion check, the VTX control-UART check
\* and the RPM filtering check
C11_SilentChecks ==
    FwReturned =>
        \A i \in (1..NumChecks) \ {3, 6, 7, 14} :
            FwSignalAbsent(i) => ~FwFailed(FirmwareIds[i])

\* the validator has reported on an ESC with no declared firmware while
\* bidirectional DShot is ON, or on a VTX with no declared type
C11_Witness ==
    /\ FwReturned
    /\ \/ /\ GetComponent(build, s_esc) # NoComponent
          /\ UndeclaredField(s_esc, s_firmware)
          /\ GetSetting(config, "dshot_bidir", None) = PyStr(<<"O","N">>)
       \/ GetComponent(build, s_vtx) # NoComponent /\ UndeclaredField(s_vtx, s_type)

\* C12: when the firmware family of the snapshot is not INAV, the report of
\* validate_firmware_config holds no result with identifier fw_019 or fw_020,
\* whatever the navigation and platform settings hold.
C12_NoInavResultOffInav ==
    (FwReturned /\ config.firmware # <<"I","N","A","V">>) =>
        FwResultsOf(<<"f","w","_","0","1","9">>) = {} /\ FwResultsOf(<<"f","w","_","0","2","0">>) = {}

\* a report under another firmware on inputs for which the two checks report
\* under INAV: a navigation speed on a whoop or long-range class, or a
\* platform type on a flying wing
C12_Witness ==
    /\ FwReturned
    /\ config.firmware # <<"I","N","A","V">>
    /\ \/ /\ ~NoSetting("nav_mc_vel_xy_max")
          /\ (Contains(build.drone_class, <<"w","h","o","o","p">>) \/ Contains(build.drone_class, <<"l","r">>))
       \/ ~NoSetting("platform_type") /\ build.drone_class = <<"f","l","y","i","n","g","_","w","i","n","g">>

\* two functions that may not share a port: a positioning function with a
\* receiver input, two video controls, or two telemetry subfunctions
MayNotShare(f1, f2) ==
    /\ f1 # f2
    /\ \/ {f1, f2} = {<<"G","P","S">>, <<"S","E","R","I","A","L","_","R","X">>}
       \/ StartsWith(f1, <<"V","T","X","_">>) /\ StartsWith(f2, <<"V","T","X","_">>)
       \/ StartsWith(f1, <<"T","E","L","E","M","E","T","R","Y","_">>) /\ StartsWith(f2, <<"T","E","L","E","M","E","T","R","Y","_">>)

\* the pairs of functions of one port of the snapshot that may not share it
SharingPairs ==
    {<<f1, f2>> \in UNION {SeqToSet(config.serial_ports[i].functions)
                              \X SeqToSet(config.serial_ports[i].functions) :
                                i \in 1..Len(config.serial_ports)} :
        /\ MayNotShare(f1, f2)
        /\ \E i \in 1..Len(config.serial_ports) :
              {f1, f2} \subseteq SeqToSet(config.serial_ports[i].functions)}

-----------------------------------------------------------------------------
(* engines/diagnose.py: compute_confidence *)

\* the three returns that pick a value by severity
SeverityScore(severity, critical, warning, info) ==
    IF severity = "critical" THEN critical
    ELSE IF severity = "warning" THEN warning
    ELSE info

\* a variant that rates a warning of another compatibility rule at 0.90
ScoreBySourceOtherWarningHigh(it) ==
    IF it.kind = "discrepancy"
    THEN SeverityScore(it.severity, PyFloat(95, 100), PyFloat(85, 100), PyFloat(70, 100))
    ELSE IF StartsWith(it.constraint_id, <<"f","w","_">>)
    THEN SeverityScore(it.severity, PyFloat(90, 100), PyFloat(80, 100), PyFloat(70, 100))
    ELSE IF StartsWith(it.constraint_id, <<"e","l","e","c","_">>)
    THEN SeverityScore(it.severity, PyFloat(90, 100), PyFloat(80, 100), PyFloat(70, 100))
    ELSE SeverityScore(it.severity, PyFloat(85, 100), PyFloat(90, 100), PyFloat(70, 100))

\* compute_confidence from "Determine source type from ID" on
ScoreBySource(it) ==
    IF it.kind = "discrepancy"
    THEN SeverityScore(it.severity, PyFloat(95, 100), PyFloat(85, 100), PyFloat(70, 100))
    ELSE IF StartsWith(it.constraint_id, <<"f","w","_">>)
    THEN SeverityScore(it.severity, PyFloat(90, 100), PyFloat(80, 100), PyFloat(70, 100))
    ELSE IF StartsWith(it.constraint_id, <<"e","l","e","c","_">>)
    THEN SeverityScore(it.severity, PyFloat(90, 100), PyFloat(80, 100), PyFloat(70, 100))
    ELSE SeverityScore(it.severity, PyFloat(85, 100), PyFloat(80, 100), PyFloat(70, 100))

\* item.details.get(key), as a truth value
DetailFlag(it, key) == Truthy(DictGet(it.details, key, None))

\* a variant that looks at the estimated flags before the skipped flag
compute_confidence_estimated_first(it) ==
    IF it.kind = "result" /\ (DetailFlag(it, "estimated") \/ DetailFlag(it, "missing_spec"))
    THEN PyFloat(50, 100)
    ELSE IF it.kind = "result" /\ DetailFlag(it, "skipped") THEN PyFloat(0, 1)
    ELSE ScoreBySource(it)

\* compute_confidence(item)
compute_confidence(it) ==
    IF it.kind = "result" /\ DetailFlag(it, "skipped") THEN PyFloat(0, 1)
    ELSE IF it.kind = "result" /\ (DetailFlag(it, "estimated") \/ DetailFlag(it, "missing_spec"))
    THEN PyFloat(50, 100)
    ELSE ScoreBySource(it)

-----------------------------------------------------------------------------
(* The findings compute_confidence is applied to *)

ScoreIds ==
    {<<"f","w","_","0","0","1">>, <<"f","w","_">>, <<"f","w">>, <<"F","W","_","0","0","1">>, <<"e","l","e","c","_","0","0","3">>, <<"e","l","e","c">>, <<"m","e","c","h","_","0","0","1">>, <<"d","i","s","c","_","0","0","1">>, <<>>}

ScoreDetails ==
    {<<>>,
     [actual |-> PyInt(MaxCells), limit |-> PyInt(MinCells)],
     [skipped |-> PyBool(TRUE), reason |-> PyStr(<<"m","i","s","s","i","n","g">>)],
     [skipped |-> PyBool(FALSE)],
     [estimated |-> PyBool(TRUE)],
     [missing_spec |-> PyBool(TRUE)],
     [estimated |-> PyBool(FALSE), missing_spec |-> PyStr(<<"k","v">>)],
     [skipped |-> PyBool(TRUE), estimated |-> PyBool(TRUE)],
     [skipped |-> PyInt(0), missing_spec |-> PyBool(FALSE)]}

ScoreItems ==
    {[kind |-> "result", constraint_id |-> id, constraint_name |-> "rule", severity |-> sev,
      passed |-> passed, details |-> details] :
        id \in ScoreIds, sev \in Severities, passed \in BOOLEAN, details \in ScoreDetails}
    \cup {Discrepancy(id, s_fc, "identity", sev) : id \in {<<"d","i","s","c","_","0","0","1">>, <<"f","w","_","0","0","1">>}, sev \in Severities}

InitScore ==
    /\ build = <<>>
    /\ item \in ScoreItems
    /\ confidence = NoCall
    /\ EvalIdle
    /\ ReportIdle
    /\ FwIdle
    /\ QuickIdle
    /\ PrioritizeIdle
    /\ OtherIdle

ComputeConfidence ==
    /\ confidence = NoCall
    /\ confidence' = compute_confidence(item)
    /\ UNCHANGED <<build, evalVars, reportVars, fwVars, item, quick_report, prio_results,
                   prio_discrepancies, symptoms, prioritized, otherVars>>

NextScore == ComputeConfidence

SpecScore == InitScore /\ [][NextScore]_vars

-----------------------------------------------------------------------------
(* Properties of compute_confidence *)

Scored == confidence # NoCall

\* the category of a finding: a discrepancy, a firmware or electrical
\* result (identifier prefix fw_ or elec_), or another compatibility result
CategoryOf(it) ==
    IF it.kind = "discrepancy" THEN "discrepancy"
    ELSE IF StartsWith(it.constraint_id, <<"f","w","_">>) \/ StartsWith(it.constraint_id, <<"e","l","e","c","_">>)
    THEN "firmware_or_electrical"
    ELSE "other"

\* the flags of a finding: Skipped, estimated or missing-specification, none
FlagsOf(it) ==
    IF it.kind = "result" /\ "skipped" \in DOMAIN it.details /\ Truthy(it.details["skipped"])
    THEN "skipped"
    ELSE IF it.kind = "result"
            /\ \E key \in {"estimated", "missing_spec"} :
                  key \in DOMAIN it.details /\ Truthy(it.details[key])
    THEN "estimated"
    ELSE "none"

\* hundredths of the category-by-severity table
TableScore ==
    [discrepancy |-> [critical |-> 95, warning |-> 85, info |-> 70],
     firmware_or_electrical |-> [critical |-> 90, warning |-> 80, info |-> 70],
     other |-> [critical |-> 85, warning |-> 80, info |-> 70]]

ExpectedScore(it) ==
    IF FlagsOf(it) = "skipped" THEN PyFloat(0, 1)
    ELSE IF FlagsOf(it) = "estimated" THEN PyFloat(1, 2)
    ELSE PyFloat(TableScore[CategoryOf(it)][it.severity], 100)

SeverityRank(severity) ==
    IF severity = "critical" THEN 0 ELSE IF severity = "warning" THEN 1 ELSE 2

\* C15 as stated: of any two findings of one category, the more severe one
\* scores at least as high.
C15_MonotonicWithinCategory ==
    Scored =>
        \A other \in ScoreItems :
            (CategoryOf(other) = CategoryOf(item)
             /\ SeverityRank(other.severity) <= SeverityRank(item.severity))
                => NumLe(confidence, compute_confidence(other))

\* C15 amended: of any two findings of one category that carry the same
\* flags (both skipped, both estimated or missing-specification, or both
\* unflagged), the more severe one scores at least as high.
C15_MonotonicSameFlags ==
    Scored =>
        \A other \in ScoreItems :
            (CategoryOf(other) = CategoryOf(item)
             /\ FlagsOf(other) = FlagsOf(item)
             /\ SeverityRank(other.severity) <= SeverityRank(item.severity))
                => NumLe(confidence, compute_confidence(other))

\* an unflagged warning finding has been scored, and an unflagged critical
\* finding of its category exists
C15_Witness ==
    /\ Scored
    /\ item.severity = "warning"
    /\ FlagsOf(item) = "none"
    /\ \E other \in ScoreItems :
          /\ CategoryOf(other) = CategoryOf(item)
          /\ FlagsOf(other) = "none"
          /\ other.severity = "critical"

\* C16: compute_confidence returns 0.0 for a Skipped finding, else 0.50 for
\* one flagged estimated or missing-specification, else the value of the
\* category-by-severity table; every score lies in [0, 1].
C16_ScoreByPriority ==
    Scored =>
        /\ NumEq(confidence, ExpectedScore(item))
        /\ NumLe(PyFloat(0, 1), confidence)
        /\ NumLe(confidence, PyFloat(1, 1))

\* a finding flagged both skipped and estimated has been scored
C16_Witness ==
    /\ Scored
    /\ FlagsOf(item) = "skipped"
    /\ "estimated" \in DOMAIN item.details
    /\ Truthy(item.details["estimated"])

-----------------------------------------------------------------------------
(* engines/diagnose.py: assign_confidence_scores, run_quick_health_check *)

QUICK_DISC_IDS == {<<"d","i","s","c","_","0","0","1">>, <<"d","i","s","c","_","0","0","2">>, <<"d","i","s","c","_","0","0","3">>, <<"d","i","s","c","_","0","0","4">>}
QUICK_FW_IDS == {<<"f","w","_","0","0","1">>, <<"f","w","_","0","0","4">>, <<"f","w","_","0","0","5">>, <<"f","w","_","0","1","0">>, <<"f","w","_","0","1","1">>}
QUICK_ELEC_IDS == {<<"e","l","e","c","_","0","0","1">>, <<"e","l","e","c","_","0","0","2">>, <<"e","l","e","c","_","0","0","3">>}

\* scores[d.id] = compute_confidence(d) for each discrepancy in turn
RECURSIVE ScoreDiscrepancies(_, _)
ScoreDiscrepancies(items, scores) ==
    IF Len(items) = 0 THEN scores
    ELSE ScoreDiscrepancies(Tail(items), (items[1].id :> compute_confidence(items[1])) @@ scores)

\* scores[r.constraint_id] = compute_confidence(r) for each result that
\* did not pass
RECURSIVE ScoreFailures(_, _)
ScoreFailures(results, scores) ==
    IF Len(results) = 0 THEN scores
    ELSE IF results[1].passed THEN ScoreFailures(Tail(results), scores)
    ELSE ScoreFailures(Tail(results),
                       (results[1].constraint_id :> compute_confidence(results[1])) @@ scores)

\* assign_confidence_scores(report): a report object is always true
assign_confidence_scores(discs, compatibility_report, firmware_report) ==
    LET compat == ScoreFailures(compatibility_report.results, ScoreDiscrepancies(discs, <<>>))
    IN IF firmware_report = None THEN compat
       ELSE ScoreFailures(firmware_report.results, compat)

\* [d for d in all_discs if d.id in _QUICK_DISC_IDS]
QuickDiscrepancies(all_discs) == SelectSeq(all_discs, LAMBDA d : d.id \in QUICK_DISC_IDS)

\* a variant that keeps every firmware result
QuickFirmwareResultsUnfiltered(results) == results

\* [r for r in full_fw_report.results if r.constraint_id in _QUICK_FW_IDS]
QuickFirmwareResults(results) == SelectSeq(results, LAMBDA r : r.constraint_id \in QUICK_FW_IDS)

\* [r for r in full_compat_report.results if r.constraint_id in _QUICK_ELEC_IDS]
QuickCompatResults(results) == SelectSeq(results, LAMBDA r : r.constraint_id \in QUICK_ELEC_IDS)

\* ValidationReport(build_name=build.name) with the filtered results
FilteredReport(b, results) == [kind |-> "report", build_name |-> b.name, results |-> results]

\* DiagnosticReport(...) with its confidence scores.  The text fc_info is
\* left out: no finding depends on it.
DiagnosticReport(b, discs, compatibility_report, firmware_report) ==
    [kind |-> "diagnostic", build_name |-> b.name, discrepancies |-> discs,
     compatibility_report |-> compatibility_report, firmware_report |-> firmware_report,
     is_quick_check |-> TRUE,
     confidence_scores |-> assign_confidence_scores(discs, compatibility_report, firmware_report)]

\* run_quick_health_check from the compatibility checks on: discs and
\* firmware_report are what the branch on fc_config has left
QuickCompat(b, discs, firmware_report, full_compat_report) ==
    IF full_compat_report.kind = "raise" THEN full_compat_report
    ELSE DiagnosticReport(b, discs, FilteredReport(b, QuickCompatResults(full_compat_report.results)),
                          firmware_report)

\* the branch taken when fc_config is given: an exception of either engine
\* leaves the function
QuickWithConfig(b, raw, all_discs, full_fw_report) ==
    IF all_discs.kind = "raise" THEN all_discs
    ELSE IF full_fw_report.kind = "raise" THEN full_fw_report
    ELSE QuickCompat(b, QuickDiscrepancies(all_discs.items),
                     FilteredReport(b, QuickFirmwareResults(full_fw_report.results)),
                     validate_build(b, raw))

\* run_quick_health_check(build, fc_config), with the rule registry that
\* validate_build loads; fc_config = None is the call without a snapshot
run_quick_health_check(b, cfg, raw) ==
    IF cfg = None THEN QuickCompat(b, <<>>, None, validate_build(b, raw))
    ELSE QuickWithConfig(b, raw, detect_discrepancies(cfg, b), validate_firmware_config(cfg, b))

-----------------------------------------------------------------------------
(* One quick health check on a drawn build, snapshot and rule registry *)

RuleWithId(id) == CHOOSE r \in WellFormedRules : r["id"] = id
InvalidRuleNamed(name) == CHOOSE r \in InvalidRules : "name" \in DOMAIN r /\ r["name"] = name

\* registries of no, one, two and five rules; the third has a rule
\* without an identifier, the fourth one that orders a text against a number
QuickRuleSets ==
    {<<>>,
     <<RuleWithId(<<"m","o","t","o","r","_","0","0","1">>)>>,
     <<RuleWithId(<<"e","l","e","c","_","0","0","1">>), CHOOSE r \in InvalidRules : "id" \notin DOMAIN r>>,
     <<RuleWithId(<<"e","l","e","c","_","0","0","3">>), InvalidRuleNamed(<<"b","a","d","_","0","0","4">>)>>,
     <<RuleWithId(<<"g","p","s","_","0","0","1">>), RuleWithId(<<"e","l","e","c","_","0","0","1">>), RuleWithId(<<"m","o","t","o","r","_","0","0","1">>),
       RuleWithId(<<"e","l","e","c","_","0","0","2">>), RuleWithId(<<"e","l","e","c","_","0","0","3">>)>>}

\* the fleet records of the firmware engines, and two whose ESC declares
\* its highest cell count: one within it, one above it
QuickBuilds ==
    FwBuilds
    \cup {MkBuild(WithSlot(WithSlot(FullSlots, s_esc, Declared(FullEsc, s_voltage_max_s, PyInt(MinCells))),
                           s_battery, Declared(FullBattery, s_cell_count, PyInt(n)))) :
            n \in MinCells..MaxCells}

\* the snapshots that differ from the full one in a port, a feature, a
\* resource, the board, or one of the settings the quick checks read
QuickSettingKeys ==
    {"motor_pwm_protocol", "serialrx_provider", "vbat_min_cell_voltage", "vbat_max_cell_voltage",
     "vtx_table_bands", "craft_name"}
QuickConfigs ==
    {c \in FwConfigs :
        \A key \in DOMAIN FullSettings \ QuickSettingKeys :
            /\ key \in DOMAIN c.master_settings
            /\ c.master_settings[key] = FullSettings[key]}

InitQuick ==
    /\ build \in QuickBuilds
    /\ config \in QuickConfigs \cup {None}
    /\ rules \in QuickRuleSets
    /\ quick_report = NoCall
    /\ fw_report = NoCall
    /\ discrepancies = NoCall
    /\ report = NoCall
    /\ report_passed = NoCall
    /\ pair = <<>>
    /\ pair_results = NoCall
    /\ EvalIdle
    /\ ScoreIdle
    /\ PrioritizeIdle
    /\ OtherIdle

RunQuickHealthCheck ==
    /\ quick_report = NoCall
    /\ quick_report' = run_quick_health_check(build, config, rules)
    /\ UNCHANGED <<build, evalVars, reportVars, fwVars, item, confidence, prio_results,
                   prio_discrepancies, symptoms, prioritized, otherVars>>

NextQuick == RunQuickHealthCheck

SpecQuick == InitQuick /\ [][NextQuick]_vars

-----------------------------------------------------------------------------
(* Properties of the quick health check *)

QuickReturned == quick_report.kind = "diagnostic"

\* the identifiers of a list of results
ResultIds(results) == {results[k].constraint_id : k \in 1..Len(results)}

\* C14: every firmware result of the report of run_quick_health_check has
\* an identifier among fw_001, fw_004, fw_005, fw_010, fw_011, every
\* discrepancy one among disc_001..disc_004, and every compatibility result
\* one among elec_001, elec_002, elec_003, whatever the full registries hold
C14_QuickAllowLists ==
    QuickReturned =>
        /\ quick_report.firmware_report # None =>
              ResultIds(quick_report.firmware_report.results)
                  \subseteq {<<"f","w","_","0","0","1">>, <<"f","w","_","0","0","4">>, <<"f","w","_","0","0","5">>, <<"f","w","_","0","1","0">>, <<"f","w","_","0","1","1">>}
        /\ {quick_report.discrepancies[k].id : k \in 1..Len(quick_report.discrepancies)}
              \subseteq {<<"d","i","s","c","_","0","0","1">>, <<"d","i","s","c","_","0","0","2">>, <<"d","i","s","c","_","0","0","3">>, <<"d","i","s","c","_","0","0","4">>}
        /\ ResultIds(quick_report.compatibility_report.results)
              \subseteq {<<"e","l","e","c","_","0","0","1">>, <<"e","l","e","c","_","0","0","2">>, <<"e","l","e","c","_","0","0","3">>}

\* a report whose three parts each hold a finding, from a call where each
\* full registry yields a finding outside the allow-lists as well
C14_Witness ==
    /\ QuickReturned
    /\ config # None
    /\ Len(quick_report.firmware_report.results) > 0
    /\ Len(quick_report.discrepancies) > 0
    /\ Len(quick_report.compatibility_report.results) > 0
    /\ Len(validate_firmware_config(config, build).results) > Len(quick_report.firmware_report.results)
    /\ Len(detect_discrepancies(config, build).items) > Len(quick_report.discrepancies)
    /\ Len(rules) > Len(quick_report.compatibility_report.results)

-----------------------------------------------------------------------------
(* engines/symptom_map.py: prioritize_results *)

SYMPTOM_CHECKS ==
    [cant_arm |-> <<<<"d","i","s","c","_","0","0","2">>, <<"f","w","_","0","0","5">>, <<"f","w","_","0","1","8">>>>,
     motors_wont_spin |-> <<<<"d","i","s","c","_","0","0","4">>, <<"d","i","s","c","_","0","0","5">>, <<"f","w","_","0","0","1">>, <<"f","w","_","0","0","2">>, <<"e","l","e","c","_","0","0","1">>, <<"e","l","e","c","_","0","0","2">>>>,
     flips_on_takeoff |-> <<<<"d","i","s","c","_","0","1","0">>, <<"f","w","_","0","0","1">>, <<"d","i","s","c","_","0","0","4">>>>,
     no_video |-> <<<<"d","i","s","c","_","0","0","3">>, <<"f","w","_","0","0","7">>, <<"f","w","_","0","0","8">>, <<"f","w","_","0","1","5">>>>,
     no_receiver |-> <<<<"d","i","s","c","_","0","0","2">>, <<"f","w","_","0","0","4">>, <<"f","w","_","0","0","5">>, <<"f","w","_","0","0","6">>>>,
     low_range |-> <<<<"d","i","s","c","_","0","0","2">>, <<"f","w","_","0","0","4">>, <<"f","w","_","0","0","5">>, <<"f","w","_","0","1","6">>>>,
     gps_not_working |-> <<<<"d","i","s","c","_","0","0","8">>, <<"f","w","_","0","1","8">>>>,
     rth_not_working |-> <<<<"d","i","s","c","_","0","0","8">>, <<"f","w","_","0","1","8">>, <<"f","w","_","0","1","9">>>>,
     bad_vibrations |-> <<<<"f","w","_","0","1","2">>, <<"f","w","_","0","1","3">>, <<"f","w","_","0","1","4">>>>,
     short_flight_time |-> <<<<"d","i","s","c","_","0","0","6">>, <<"f","w","_","0","1","0">>, <<"f","w","_","0","1","1">>, <<"e","l","e","c","_","0","0","5">>>>,
     failsafe_issues |-> <<<<"d","i","s","c","_","0","0","2">>, <<"f","w","_","0","0","4">>, <<"f","w","_","0","0","5">>, <<"f","w","_","0","1","6">>>>,
     vtx_not_changing |-> <<<<"d","i","s","c","_","0","0","3">>, <<"f","w","_","0","0","7">>, <<"f","w","_","0","0","8">>, <<"f","w","_","0","0","9">>>>,
     compass_drift |-> <<<<"d","i","s","c","_","0","0","8">>, <<"f","w","_","0","1","8">>>>,
     altitude_hold_issues |-> <<<<"d","i","s","c","_","0","0","8">>, <<"f","w","_","0","1","8">>, <<"f","w","_","0","1","9">>>>]

\* _get_check_id(item)
get_check_id(it) == IF it.kind = "discrepancy" THEN it.id ELSE it.constraint_id

\* _severity_order(severity)
severity_order(severity) ==
    CASE severity = "critical" -> 0
      [] severity = "warning" -> 1
      [] severity = "info" -> 2

\* relevant_ids: the check lists of the reported symptoms, none for a key
\* the table does not hold
RECURSIVE RelevantIds(_, _)
RelevantIds(symptom_keys, ids) ==
    IF Len(symptom_keys) = 0 THEN ids
    ELSE RelevantIds(Tail(symptom_keys),
                     ids \cup SeqToSet(DictGet(SYMPTOM_CHECKS, symptom_keys[1], <<>>)))

\* a variant that takes every result into the pool
FailedResultsWithPassed(all_results) == all_results

\* the results that did not pass, in their order
FailedResults(all_results) == SelectSeq(all_results, LAMBDA r : ~r.passed)

\* a variant that orders by severity alone
SortKeyLtSeverityOnly(a, b) == severity_order(a.severity) < severity_order(b.severity)

\* sort_key(a) < sort_key(b): tuples of the severity order and the check id
SortKeyLt(a, b) ==
    \/ severity_order(a.severity) < severity_order(b.severity)
    \/ /\ severity_order(a.severity) = severity_order(b.severity)
       /\ StrLt(get_check_id(a), get_check_id(b))

\* list.sort(key=sort_key): a stable sort, so an item goes in front of the
\* first item already placed whose key is greater, or to the end
RECURSIVE InsertByKey(_, _)
InsertByKey(sorted, it) ==
    IF Len(sorted) = 0 THEN <<it>>
    ELSE IF SortKeyLt(it, sorted[1]) THEN <<it>> \o sorted
    ELSE <<sorted[1]>> \o InsertByKey(Tail(sorted), it)

RECURSIVE SortByKey(_, _)
SortByKey(items, sorted) ==
    IF Len(items) = 0 THEN sorted
    ELSE SortByKey(Tail(items), InsertByKey(sorted, items[1]))

\* prioritize_results from the pool of findings on
Partition(all_items, relevant_ids) ==
    [kind |-> "partitions",
     symptom_relevant |->
         SortByKey(SelectSeq(all_items, LAMBDA it : get_check_id(it) \in relevant_ids), <<>>),
     other |->
         SortByKey(SelectSeq(all_items, LAMBDA it : get_check_id(it) \notin relevant_ids), <<>>)]

\* prioritize_results(all_results, discrepancies, symptoms)
prioritize_results(all_results, discs, symptom_keys) ==
    Partition(FailedResults(all_results) \o discs, RelevantIds(symptom_keys, {}))

-----------------------------------------------------------------------------
(* One call of prioritize_results on drawn findings and symptoms *)

MaxFindings == 3

PrioResult(id, severity, passed, details) ==
    [kind |-> "result", constraint_id |-> id, constraint_name |-> "check", severity |-> severity,
     passed |-> passed, details |-> details]

\* failed results of the checks of two symptoms, of a rule of a third and
\* of a rule of none; a passed and a skipped result of listed checks
PrioResultPool ==
    {PrioResult(<<"f","w","_","0","0","5">>, "critical", FALSE, <<>>),
     PrioResult(<<"f","w","_","0","1","8">>, "critical", FALSE, <<>>),
     PrioResult(<<"f","w","_","0","0","7">>, "warning", FALSE, <<>>),
     PrioResult(<<"e","l","e","c","_","0","0","1">>, "info", FALSE, <<>>),
     PrioResult(<<"m","e","c","h","_","0","0","1">>, "critical", FALSE, <<>>),
     PrioResult(<<"f","w","_","0","0","5">>, "warning", TRUE, <<>>),
     PrioResult(<<"f","w","_","0","0","7">>, "critical", TRUE, [skipped |-> PyBool(TRUE)])}

PrioDiscrepancyLists ==
    {<<>>,
     <<Discrepancy(<<"d","i","s","c","_","0","0","2">>, s_receiver, "protocol", "critical")>>,
     <<Discrepancy(<<"d","i","s","c","_","0","0","3">>, s_vtx, "config", "warning"), Discrepancy(<<"d","i","s","c","_","0","0","2">>, s_receiver, "protocol", "critical")>>,
     <<Discrepancy(<<"d","i","s","c","_","0","0","9">>, s_fc, "identity", "info"), Discrepancy(<<"d","i","s","c","_","0","0","3">>, s_vtx, "config", "critical"),
       Discrepancy(<<"d","i","s","c","_","0","0","2">>, s_receiver, "protocol", "critical")>>}

SymptomLists ==
    {<<>>, <<"cant_arm">>, <<"no_video", "cant_arm">>, <<"headless_mode">>,
     <<"headless_mode", "motors_wont_spin">>, <<"cant_arm", "cant_arm">>}

InitPrioritize ==
    /\ build = <<>>
    /\ prio_results \in SeqsUpTo(PrioResultPool, MaxFindings)
    /\ prio_discrepancies \in PrioDiscrepancyLists
    /\ symptoms \in SymptomLists
    /\ prioritized = NoCall
    /\ EvalIdle
    /\ ReportIdle
    /\ FwIdle
    /\ ScoreIdle
    /\ QuickIdle
    /\ OtherIdle

PrioritizeResults ==
    /\ prioritized = NoCall
    /\ prioritized' = prioritize_results(prio_results, prio_discrepancies, symptoms)
    /\ UNCHANGED <<build, evalVars, reportVars, fwVars, item, confidence, quick_report,
                   prio_results, prio_discrepancies, symptoms, otherVars>>

NextPrioritize == PrioritizeResults

SpecPrioritize == InitPrioritize /\ [][NextPrioritize]_vars

-----------------------------------------------------------------------------
(* Properties of prioritize_results *)

Prioritized == prioritized # NoCall

FindingId(it) == IF it.kind = "discrepancy" THEN it.id ELSE it.constraint_id

\* the check ids the table lists under the given symptom keys
ListedIds ==
    UNION {SeqToSet(SYMPTOM_CHECKS[s]) : s \in SeqToSet(symptoms) \cap DOMAIN SYMPTOM_CHECKS}

\* C17: every item of the symptom-relevant partition has an identifier in
\* the union of the given symptoms' check lists, and no result with
\* passed = True, skipped ones included, is in either partition
C17_RelevantListedPassedExcluded ==
    Prioritized =>
        /\ \A k \in 1..Len(prioritized.symptom_relevant) :
              FindingId(prioritized.symptom_relevant[k]) \in ListedIds
        /\ \A k \in 1..Len(prio_results) :
              prio_results[k].passed =>
                  /\ prio_results[k] \notin SeqToSet(prioritized.symptom_relevant)
                  /\ prio_results[k] \notin SeqToSet(prioritized.other)

\* a call that places a result and a discrepancy in the relevant
\* partition and an item in the other one, and is given a passed and a
\* skipped result of checks the symptoms list
C17_Witness ==
    /\ Prioritized
    /\ \E k \in 1..Len(prioritized.symptom_relevant) : prioritized.symptom_relevant[k].kind = "result"
    /\ \E k \in 1..Len(prioritized.symptom_relevant) : prioritized.symptom_relevant[k].kind = "discrepancy"
    /\ Len(prioritized.other) > 0
    /\ \E k \in 1..Len(prio_results) :
          /\ prio_results[k].passed
          /\ "skipped" \in DOMAIN prio_results[k].details
          /\ prio_results[k].constraint_id \in ListedIds
    /\ \E k \in 1..Len(prio_results) :
          /\ prio_results[k].passed
          /\ "skipped" \notin DOMAIN prio_results[k].details
          /\ prio_results[k].constraint_id \in ListedIds

\* a list of findings in the order of severity rank, then identifier
SortedBySeverityThenId(items) ==
    \A i, j \in 1..Len(items) :
        i < j =>
            \/ SeverityRank(items[i].severity) < SeverityRank(items[j].severity)
            \/ /\ items[i].severity = items[j].severity
               /\ ~StrLt(FindingId(items[j]), FindingId(items[i]))

\* C18: each partition prioritize_results returns is sorted by severity
\* rank (critical, warning, info) and, within one severity, by identifier
\* ascending, whatever the order of the findings given
C18_PartitionsSorted ==
    Prioritized =>
        /\ SortedBySeverityThenId(prioritized.symptom_relevant)
        /\ SortedBySeverityThenId(prioritized.other)

\* the findings as given are not in that order, and a partition holds
\* three or more of them, two of one severity and one of another
C18_Witness ==
    /\ Prioritized
    /\ ~SortedBySeverityThenId(SelectSeq(prio_results, LAMBDA r : ~r.passed) \o prio_discrepancies)
    /\ \E p \in {prioritized.symptom_relevant, prioritized.other} :
          /\ Len(p) >= 3
          /\ \E i, j \in 1..Len(p) :
                /\ p[i].severity = p[j].severity
                /\ FindingId(p[i]) # FindingId(p[j])
          /\ \E i, j \in 1..Len(p) : p[i].severity # p[j].severity

\* the microcontroller the flight controller of the fleet record declares,
\* the empty text when there is none
DeclaredMcu ==
    IF UndeclaredField(s_fc, s_mcu) THEN <<>> ELSE GetComponent(build, s_fc).specs[s_mcu].v

\* a text without its leading vendor-family prefix, STM32 or AT32
WithoutVendorPrefix(text) ==
    IF StartsWith(text, <<"S","T","M","3","2">>) THEN SubSeq(text, 6, Len(text))
    ELSE IF StartsWith(text, <<"A","T","3","2">>) THEN SubSeq(text, 5, Len(text))
    ELSE text

\* p occurs in s as a substring
Occurs(p, s) == \E i \in 0..(Len(s) - Len(p)) : SubSeq(s, i + 1, i + Len(p)) = p

StrippedMcu == WithoutVendorPrefix(Upper(DeclaredMcu))
FamilyCode == SubSeq(StrippedMcu, 1, IF Len(StrippedMcu) < 2 THEN Len(StrippedMcu) ELSE 2)

BoardMismatchReported ==
    \E k \in 1..Len(discrepancies.items) :
        /\ discrepancies.items[k].id = <<"d","i","s","c","_","0","0","1">>
        /\ discrepancies.items[k].severity = "critical"

BoardCompared ==
    /\ DiscCalled
    /\ discrepancies.kind = "list"
    /\ Len(DeclaredMcu) > 0
    /\ Len(config.board_name) > 0

\* C19: with a declared microcontroller and a reported board name, a
\* CRITICAL disc_001 is reported if and only if neither the microcontroller
\* text without its vendor-family prefix nor its two-character family code
\* occurs in the board name, letter case aside.
C19_BoardMismatchIff ==
    BoardCompared =>
        (BoardMismatchReported <=>
            /\ ~Occurs(StrippedMcu, Upper(config.board_name))
            /\ ~Occurs(FamilyCode, Upper(config.board_name)))

\* the part of C19 that the code keeps: the equivalence for a
\* microcontroller text that is more than its vendor-family prefix
C19_IffBeyondPrefix ==
    (BoardCompared /\ Len(StrippedMcu) > 0) =>
        (BoardMismatchReported <=>
            /\ ~Occurs(StrippedMcu, Upper(config.board_name))
            /\ ~Occurs(FamilyCode, Upper(config.board_name)))

\* the board check has run on a flight controller whose declared
\* microcontroller is a vendor-family prefix and no more
C19_Witness ==
    /\ BoardCompared
    /\ Len(StrippedMcu) = 0
    /\ BoardMismatchReported

\* a serial port of the snapshot carries one of the functions
PortShows(functions) ==
    \E k \in 1..Len(config.serial_ports) :
        SeqToSet(config.serial_ports[k].functions) \cap functions # {}

AnalogIndicated == PortShows({<<"V","T","X","_","S","M","A","R","T","A","U","D","I","O">>, <<"V","T","X","_","T","R","A","M","P">>})
DigitalIndicated == PortShows({<<"V","T","X","_","M","S","P">>, <<"M","S","P","_","D","I","S","P","L","A","Y","P","O","R","T">>})

\* the type the VTX of the fleet record declares, the empty text when none
DeclaredVtxType ==
    IF UndeclaredField(s_vtx, s_type) THEN <<>> ELSE GetComponent(build, s_vtx).specs[s_type].v
DeclaredDigital == Occurs(<<"d","i","g","i","t","a","l">>, Lower(DeclaredVtxType))

VtxMismatchReported ==
    \E k \in 1..Len(discrepancies.items) : discrepancies.items[k].id = <<"d","i","s","c","_","0","0","3">>

\* C20: disc_003 is reported only when the ports of the snapshot show
\* exactly one of the analog (SmartAudio, Tramp) and digital (VTX MSP,
\* DisplayPort) indicators and that one contradicts the declared VTX type;
\* when they show neither or both, no disc_003 is reported whatever the
\* declared type.
C20_VtxMismatchOnlyUnambiguous ==
    (DiscCalled /\ discrepancies.kind = "list") =>
        /\ VtxMismatchReported =>
              /\ Len(DeclaredVtxType) > 0
              /\ \/ AnalogIndicated /\ ~DigitalIndicated /\ DeclaredDigital
                 \/ DigitalIndicated /\ ~AnalogIndicated /\ ~DeclaredDigital
        /\ (AnalogIndicated <=> DigitalIndicated) => ~VtxMismatchReported

\* the detector has run on a declared digital VTX against a snapshot whose
\* ports show both indicators
C20_Witness ==
    /\ DiscCalled
    /\ discrepancies.kind = "list"
    /\ DeclaredDigital
    /\ AnalogIndicated
    /\ DigitalIndicated

-----------------------------------------------------------------------------
(* engines/diagnose.py: diff_configs *)

\* sorted(keys) for the setting names the snapshots of the model use
SettingKeyOrder ==
    <<"craft_name", "dshot_bidir", "gyro_lpf1_static_hz", "motor_pwm_protocol", "name",
      "nav_mc_vel_xy_max", "pid_process_denom", "platform_type", "rpm_filter_harmonics",
      "serialrx_inverted", "serialrx_provider", "vbat_max_cell_voltage",
      "vbat_min_cell_voltage", "vtx_table_bands">>

\* sorted(S) for a set of texts
RECURSIVE SortedTexts(_)
SortedTexts(S) ==
    IF S = {} THEN <<>>
    ELSE LET least == CHOOSE x \in S : \A y \in S \ {x} : StrLt(x, y)
         IN <<least>> \o SortedTexts(S \ {least})

\* sorted(S) for a set of port ids
RECURSIVE SortedInts(_)
SortedInts(S) ==
    IF S = {} THEN <<>>
    ELSE LET least == CHOOSE x \in S : \A y \in S : x <= y
         IN <<least>> \o SortedInts(S \ {least})

\* a variant that reports every setting as changed
SettingChangeAlways(old, new, key) ==
    <<[kind |-> "setting changed", key |-> key,
       old |-> DictGet(old.master_settings, key, None),
       new |-> DictGet(new.master_settings, key, None)]>>

\* the change one setting key contributes, none when the values are equal.
\* A change is kept as the values its text is formatted from.
SettingChange(old, new, key) ==
    LET old_val == DictGet(old.master_settings, key, None)
        new_val == DictGet(new.master_settings, key, None)
    IN IF old_val = new_val THEN <<>>
       ELSE IF old_val = None THEN <<[kind |-> "setting added", key |-> key, new |-> new_val]>>
       ELSE IF new_val = None THEN <<[kind |-> "setting removed", key |-> key, old |-> old_val]>>
       ELSE <<[kind |-> "setting changed", key |-> key, old |-> old_val, new |-> new_val]>>

\* the loop over sorted(all_keys)
RECURSIVE SettingChanges(_, _, _)
SettingChanges(old, new, keys) ==
    IF Len(keys) = 0 THEN <<>>
    ELSE SettingChange(old, new, keys[1]) \o SettingChanges(old, new, Tail(keys))

\* one entry per feature of the sorted set
FeatureChanges(kind, feats) == [i \in 1..Len(feats) |-> [kind |-> kind, feature |-> feats[i]]]

\* {p.port_id: p for p in ports}: the last port of an id stays
PortsById(ports) ==
    [id \in {ports[i].port_id : i \in 1..Len(ports)} |->
        ports[CHOOSE i \in 1..Len(ports) :
                /\ ports[i].port_id = id
                /\ \A j \in (i + 1)..Len(ports) : ports[j].port_id # id]]

\* the change one port id contributes
PortChange(old_ports, new_ports, port_id) ==
    IF port_id \in DOMAIN old_ports /\ port_id \in DOMAIN new_ports
    THEN IF SeqToSet(old_ports[port_id].functions) # SeqToSet(new_ports[port_id].functions)
         THEN <<[kind |-> "port changed", port_id |-> port_id,
                 old |-> SortedTexts(SeqToSet(old_ports[port_id].functions)),
                 new |-> SortedTexts(SeqToSet(new_ports[port_id].functions))]>>
         ELSE <<>>
    ELSE IF port_id \in DOMAIN new_ports
    THEN <<[kind |-> "port added", port_id |-> port_id, functions |-> new_ports[port_id].functions]>>
    ELSE <<[kind |-> "port removed", port_id |-> port_id, functions |-> old_ports[port_id].functions]>>

\* the loop over sorted(all_port_ids)
RECURSIVE PortChanges(_, _, _)
PortChanges(old_ports, new_ports, ids) ==
    IF Len(ids) = 0 THEN <<>>
    ELSE PortChange(old_ports, new_ports, ids[1]) \o PortChanges(old_ports, new_ports, Tail(ids))

\* diff_configs(old, new)
diff_configs(old, new) ==
    SettingChanges(old, new,
                   SelectSeq(SettingKeyOrder,
                             LAMBDA key : key \in DOMAIN old.master_settings \cup DOMAIN new.master_settings))
    \o FeatureChanges("feature enabled", SortedTexts(new.features \ old.features))
    \o FeatureChanges("feature disabled", SortedTexts(old.features \ new.features))
    \o PortChanges(PortsById(old.serial_ports), PortsById(new.serial_ports),
                   SortedInts(DOMAIN PortsById(old.serial_ports) \cup DOMAIN PortsById(new.serial_ports)))

-----------------------------------------------------------------------------
(* One call of diff_configs on two drawn snapshots *)

\* port lists with a repeated port id, a repeated function, and the ports
\* of the full snapshot in another order
DiffPorts ==
    FwPorts
    \cup {<<SerialPort(1, <<<<"G","P","S">>>>), SerialPort(1, <<<<"S","E","R","I","A","L","_","R","X">>>>)>>,
          <<SerialPort(2, <<<<"G","P","S">>, <<"G","P","S">>>>), SerialPort(0, <<<<"M","S","P">>>>)>>,
          <<SerialPort(0, <<>>)>>,
          <<FullPorts[4], FullPorts[2], FullPorts[3], FullPorts[1]>>}

DiffSettings ==
    {FullSettings, <<>>, SettingsWithout(FullSettings, "craft_name"),
     ("name" :> PyStr(<<"O","t","h","e","r">>)) @@ FullSettings,
     ("motor_pwm_protocol" :> PyStr(<<"D","S","H","O","T","3","0","0">>)) @@ FullSettings,
     ("vtx_table_bands" :> PyStr(<<>>)) @@ FullSettings}

DiffConfigs ==
    {[FullConfig EXCEPT !.master_settings = s] : s \in DiffSettings}
    \cup {[FullConfig EXCEPT !.serial_ports = p] : p \in DiffPorts}
    \cup {[FullConfig EXCEPT !.features = f] : f \in FwFeatures}

InitDiff ==
    /\ build = <<>>
    /\ diff_old \in DiffConfigs
    /\ diff_new \in DiffConfigs
    /\ changes = NoCall
    /\ EvalIdle /\ ReportIdle /\ FwIdle /\ DiagIdle /\ MatchIdle /\ ExprIdle /\ SerialIdle

DiffConfigsCall ==
    /\ changes = NoCall
    /\ changes' = [kind |-> "changes", items |-> diff_configs(diff_old, diff_new)]
    /\ UNCHANGED <<build, evalVars, reportVars, fwVars, diagVars, serialVars, exprVars, diff_old, diff_new, matchVars>>

NextDiff == DiffConfigsCall

SpecDiff == InitDiff /\ [][NextDiff]_vars

-----------------------------------------------------------------------------
(* Properties of diff_configs *)

Diffed == changes # NoCall

\* C21: diff_configs(X, X) returns an empty list for every snapshot X,
\* whatever its settings, features and serial ports, ports in any order or
\* with repeated port ids or repeated functions included
C21_DiffOfSelfEmpty ==
    (Diffed /\ diff_old = diff_new) => Len(changes.items) = 0

\* the call on one snapshot for both sides, the snapshot having settings,
\* features and a port list with a repeated port id
C21_Witness ==
    /\ Diffed
    /\ diff_old = diff_new
    /\ DOMAIN diff_old.master_settings # {}
    /\ diff_old.features # {}
    /\ \E i, j \in 1..Len(diff_old.serial_ports) :
          /\ i # j
          /\ diff_old.serial_ports[i].port_id = diff_old.serial_ports[j].port_id

(***************************************************************************)
(* Free-text symptom matching: match_symptom of engines/symptom_map.py.    *)
(* A match is kept as [key, score] with the score in hundredths, the two   *)
(* decimals the code rounds to.                                            *)
(***************************************************************************)

\* The symptom keys in the order the keyword table lists them.
SymptomKeys ==
    <<"cant_arm", "motors_wont_spin", "flips_on_takeoff", "no_video", "no_receiver", "low_range", "gps_not_working", "rth_not_working", "bad_vibrations", "short_flight_time", "failsafe_issues", "vtx_not_changing", "compass_drift", "altitude_hold_issues">>

\* The same keys in alphabetical order, the order the sort compares them in.
SymptomKeyOrder ==
    <<"altitude_hold_issues", "bad_vibrations", "cant_arm", "compass_drift", "failsafe_issues", "flips_on_takeoff", "gps_not_working", "low_range", "motors_wont_spin", "no_receiver", "no_video", "rth_not_working", "short_flight_time", "vtx_not_changing">>

\* _SYMPTOM_KEYWORDS: the keywords and phrases of each symptom.
_SYMPTOM_KEYWORDS ==
       "cant_arm" :>
        <<<<"a","r","m">>,
          <<"w","o","n","t"," ","a","r","m">>,
          <<"w","o","n","'","t"," ","a","r","m">>,
          <<"n","o","t"," ","a","r","m","i","n","g">>,
          <<"c","a","n","t"," ","a","r","m">>,
          <<"c","a","n","'","t"," ","a","r","m">>,
          <<"a","r","m","i","n","g">>,
          <<"d","i","s","a","r","m","e","d">>,
          <<"f","a","i","l","s","a","f","e"," ","a","r","m","i","n","g">>,
          <<"a","r","m"," ","s","w","i","t","c","h">>,
          <<"w","o","n","t"," ","d","i","s","a","r","m">>,
          <<"r","e","f","u","s","e","s"," ","t","o"," ","a","r","m">>,
          <<"u","n","a","b","l","e"," ","t","o"," ","a","r","m">>,
          <<"a","r","m","i","n","g"," ","d","i","s","a","b","l","e","d">>,
          <<"a","r","m","i","n","g"," ","p","r","e","v","e","n","t","i","o","n">>>>
    @@ "motors_wont_spin" :>
        <<<<"m","o","t","o","r">>,
          <<"s","p","i","n">>,
          <<"n","o","t"," ","s","p","i","n","n","i","n","g">>,
          <<"w","o","n","t"," ","s","p","i","n">>,
          <<"w","o","n","'","t"," ","s","p","i","n">>,
          <<"m","o","t","o","r","s"," ","d","e","a","d">>,
          <<"n","o"," ","m","o","t","o","r">>,
          <<"p","r","o","p","s"," ","n","o","t"," ","t","u","r","n","i","n","g">>,
          <<"p","r","o","p","e","l","l","e","r","s"," ","n","o","t"," ","s","p","i","n","n","i","n","g">>,
          <<"e","s","c"," ","n","o","t"," ","i","n","i","t","i","a","l","i","z","i","n","g">>,
          <<"e","s","c"," ","b","e","e","p","i","n","g">>,
          <<"e","s","c"," ","n","o"," ","t","o","n","e","s">>,
          <<"m","o","t","o","r"," ","n","o","t"," ","r","e","s","p","o","n","d","i","n","g">>,
          <<"p","r","o","p","s"," ","w","o","n","t"," ","s","p","i","n">>,
          <<"m","o","t","o","r","s"," ","s","t","o","p","p","e","d">>,
          <<"m","o","t","o","r","s"," ","n","o","t"," ","w","o","r","k","i","n","g">>>>
    @@ "flips_on_takeoff" :>
        <<<<"f","l","i","p">>,
          <<"f","l","i","p","s">>,
          <<"f","l","i","p","s"," ","o","n"," ","t","a","k","e","o","f","f">>,
          <<"f","l","i","p"," ","o","n"," ","a","r","m">>,
          <<"f","l","i","p"," ","o","n"," ","t","a","k","e","o","f","f">>,
          <<"c","r","a","s","h","e","s"," ","i","m","m","e","d","i","a","t","e","l","y">>,
          <<"d","e","a","t","h"," ","r","o","l","l">>,
          <<"t","u","m","b","l","e">>,
          <<"r","o","l","l","s"," ","o","v","e","r">>,
          <<"y","a","w"," ","s","p","i","n">>,
          <<"f","l","i","p","s"," ","o","v","e","r">>,
          <<"i","n","s","t","a","n","t"," ","c","r","a","s","h">>,
          <<"t","a","k","e","s"," ","o","f","f"," ","s","i","d","e","w","a","y","s">>>>
    @@ "no_video" :>
        <<<<"v","i","d","e","o">>,
          <<"n","o"," ","v","i","d","e","o">>,
          <<"b","l","a","c","k"," ","s","c","r","e","e","n">>,
          <<"n","o"," ","i","m","a","g","e">>,
          <<"v","t","x">>,
          <<"o","s","d">>,
          <<"b","l","a","n","k"," ","g","o","g","g","l","e","s">>,
          <<"n","o"," ","f","e","e","d">>,
          <<"s","t","a","t","i","c">>,
          <<"n","o"," ","o","s","d">>,
          <<"n","o"," ","d","i","s","p","l","a","y">>,
          <<"v","i","d","e","o"," ","b","l","a","c","k">>,
          <<"g","o","g","g","l","e","s"," ","b","l","a","c","k">>,
          <<"n","o"," ","p","i","c","t","u","r","e">>,
          <<"v","i","d","e","o"," ","l","o","s","t">>,
          <<"s","c","r","e","e","n"," ","b","l","a","n","k">>,
          <<"n","o"," ","f","p","v">>,
          <<"f","p","v"," ","b","l","a","c","k">>>>
    @@ "no_receiver" :>
        <<<<"r","e","c","e","i","v","e","r">>,
          <<"n","o"," ","r","e","c","e","i","v","e","r">>,
          <<"r","x"," ","n","o","t"," ","w","o","r","k","i","n","g">>,
          <<"n","o"," ","r","c">>,
          <<"n","o"," ","s","i","g","n","a","l">>,
          <<"r","c"," ","i","n","p","u","t">>,
          <<"n","o"," ","c","h","a","n","n","e","l","s">>,
          <<"r","e","c","e","i","v","e","r"," ","n","o","t"," ","d","e","t","e","c","t","e","d">>,
          <<"r","x"," ","d","e","a","d">>,
          <<"n","o"," ","r","x">>,
          <<"r","c"," ","n","o","t"," ","c","o","n","n","e","c","t","e","d">>,
          <<"r","e","c","e","i","v","e","r"," ","d","i","s","c","o","n","n","e","c","t","e","d">>,
          <<"s","b","u","s">>,
          <<"c","r","s","f"," ","n","o","t"," ","w","o","r","k","i","n","g">>,
          <<"e","l","r","s"," ","n","o","t"," ","b","i","n","d","i","n","g">>,
          <<"n","o"," ","r","c"," ","i","n","p","u","t">>>>
    @@ "low_range" :>
        <<<<"r","a","n","g","e">>,
          <<"l","o","w"," ","r","a","n","g","e">>,
          <<"s","i","g","n","a","l"," ","d","r","o","p">>,
          <<"s","i","g","n","a","l"," ","l","o","s","s">>,
          <<"f","a","i","l","s","a","f","e"," ","r","a","n","g","e">>,
          <<"s","h","o","r","t"," ","r","a","n","g","e">>,
          <<"r","s","s","i"," ","l","o","w">>,
          <<"r","s","s","i"," ","d","r","o","p","s">>,
          <<"l","i","n","k"," ","q","u","a","l","i","t","y">>,
          <<"l","q"," ","d","r","o","p","s">>,
          <<"c","o","n","n","e","c","t","i","o","n"," ","d","r","o","p","s">>,
          <<"d","r","o","p","s"," ","o","u","t">>,
          <<"r","a","d","i","o"," ","r","a","n","g","e">>,
          <<"a","n","t","e","n","n","a"," ","r","a","n","g","e">>>>
    @@ "gps_not_working" :>
        <<<<"g","p","s">>,
          <<"n","o"," ","g","p","s">>,
          <<"g","p","s"," ","f","i","x">>,
          <<"n","o"," ","s","a","t","e","l","l","i","t","e","s">>,
          <<"s","a","t","e","l","l","i","t","e">>,
          <<"g","p","s"," ","n","o","t"," ","f","o","u","n","d">>,
          <<"p","o","s","i","t","i","o","n">>,
          <<"n","o"," ","p","o","s","i","t","i","o","n">>,
          <<"g","p","s"," ","m","o","d","u","l","e">>,
          <<"u","b","l","o","x">>,
          <<"g","p","s"," ","l","o","c","k">>,
          <<"g","p","s"," ","s","e","a","r","c","h">>,
          <<"n","o"," ","g","p","s"," ","s","i","g","n","a","l">>>>
    @@ "rth_not_working" :>
        <<<<"r","t","h">>,
          <<"r","e","t","u","r","n"," ","t","o"," ","h","o","m","e">>,
          <<"r","e","t","u","r","n"," ","h","o","m","e">>,
          <<"g","p","s"," ","r","e","s","c","u","e">>,
          <<"r","e","s","c","u","e"," ","m","o","d","e">>,
          <<"r","t","h"," ","n","o","t"," ","w","o","r","k","i","n","g">>,
          <<"h","o","m","e"," ","p","o","i","n","t">>,
          <<"f","a","i","l","s","a","f","e"," ","r","t","h">>,
          <<"r","e","t","u","r","n"," ","t","o"," ","l","a","u","n","c","h">>,
          <<"g","o"," ","h","o","m","e">>,
          <<"n","a","v","i","g","a","t","i","o","n">>,
          <<"n","a","v"," ","n","o","t"," ","w","o","r","k","i","n","g">>>>
    @@ "bad_vibrations" :>
        <<<<"v","i","b","r","a","t","i","o","n">>,
          <<"j","e","l","l","o">>,
          <<"s","h","a","k","i","n","g">>,
          <<"o","s","c","i","l","l","a","t","i","o","n">>,
          <<"w","o","b","b","l","e">>,
          <<"p","i","d">>,
          <<"n","o","i","s","y">>,
          <<"g","y","r","o">>,
          <<"p","r","o","p","w","a","s","h">>,
          <<"p","r","o","p"," ","w","a","s","h">>,
          <<"u","n","s","t","a","b","l","e">>,
          <<"s","h","a","k","y"," ","v","i","d","e","o">>,
          <<"m","o","t","o","r"," ","n","o","i","s","e">>,
          <<"d","e","s","y","n","c">>,
          <<"o","s","c","i","l","l","a","t","i","n","g">>,
          <<"b","o","u","n","c","i","n","g">>,
          <<"f","l","u","t","t","e","r">>>>
    @@ "short_flight_time" :>
        <<<<"f","l","i","g","h","t"," ","t","i","m","e">>,
          <<"s","h","o","r","t"," ","f","l","i","g","h","t">>,
          <<"b","a","t","t","e","r","y"," ","l","i","f","e">>,
          <<"b","a","t","t","e","r","y"," ","d","r","a","i","n">>,
          <<"v","o","l","t","a","g","e">>,
          <<"l","o","w"," ","b","a","t","t","e","r","y">>,
          <<"s","a","g">>,
          <<"b","a","t","t","e","r","y"," ","s","a","g">>,
          <<"l","a","n","d","s"," ","e","a","r","l","y">>,
          <<"n","o","t"," ","e","n","o","u","g","h"," ","f","l","i","g","h","t"," ","t","i","m","e">>,
          <<"b","a","t","t","e","r","y"," ","d","i","e","s"," ","f","a","s","t">>,
          <<"q","u","i","c","k"," ","d","i","s","c","h","a","r","g","e">>,
          <<"b","a","t","t","e","r","y"," ","w","a","r","n","i","n","g">>,
          <<"c","a","p","a","c","i","t","y">>>>
    @@ "failsafe_issues" :>
        <<<<"f","a","i","l","s","a","f","e">>,
          <<"f","a","i","l"," ","s","a","f","e">>,
          <<"f","a","i","l","s","a","f","e"," ","n","o","t"," ","w","o","r","k","i","n","g">>,
          <<"f","a","i","l","s","a","f","e"," ","t","r","i","g","g","e","r">>,
          <<"u","n","e","x","p","e","c","t","e","d"," ","f","a","i","l","s","a","f","e">>,
          <<"f","a","i","l","s","a","f","e"," ","l","a","n","d">>,
          <<"f","a","i","l","s","a","f","e"," ","d","r","o","p">>,
          <<"s","i","g","n","a","l"," ","l","o","s","t">>,
          <<"r","x"," ","l","o","s","s">>,
          <<"l","i","n","k"," ","l","o","s","t">>,
          <<"f","a","i","l","s","a","f","e"," ","a","c","t","i","v","a","t","e","s">>>>
    @@ "vtx_not_changing" :>
        <<<<"v","t","x"," ","c","h","a","n","n","e","l">>,
          <<"v","t","x"," ","p","o","w","e","r">>,
          <<"s","m","a","r","t","a","u","d","i","o">>,
          <<"s","m","a","r","t"," ","a","u","d","i","o">>,
          <<"t","r","a","m","p">>,
          <<"v","t","x"," ","c","o","n","t","r","o","l">>,
          <<"v","t","x"," ","s","e","t","t","i","n","g","s">>,
          <<"c","h","a","n","g","e"," ","c","h","a","n","n","e","l">>,
          <<"c","h","a","n","g","e"," ","p","o","w","e","r">>,
          <<"v","t","x"," ","b","a","n","d">>,
          <<"p","i","t"," ","m","o","d","e">>,
          <<"v","t","x"," ","t","a","b","l","e">>,
          <<"v","t","x"," ","n","o","t"," ","r","e","s","p","o","n","d","i","n","g">>,
          <<"v","t","x"," ","s","t","u","c","k">>>>
    @@ "compass_drift" :>
        <<<<"c","o","m","p","a","s","s">>,
          <<"h","e","a","d","i","n","g">>,
          <<"d","r","i","f","t">>,
          <<"c","o","m","p","a","s","s"," ","d","r","i","f","t">>,
          <<"h","e","a","d","i","n","g"," ","w","r","o","n","g">>,
          <<"m","a","g">>,
          <<"m","a","g","n","e","t","o","m","e","t","e","r">>,
          <<"c","o","m","p","a","s","s"," ","c","a","l","i","b","r","a","t","i","o","n">>,
          <<"y","a","w"," ","d","r","i","f","t">>,
          <<"h","e","a","d","i","n","g"," ","o","f","f","s","e","t">>,
          <<"c","o","m","p","a","s","s"," ","e","r","r","o","r">>>>
    @@ "altitude_hold_issues" :>
        <<<<"a","l","t","i","t","u","d","e">>,
          <<"a","l","t","i","t","u","d","e"," ","h","o","l","d">>,
          <<"a","l","t"," ","h","o","l","d">>,
          <<"h","e","i","g","h","t">>,
          <<"b","a","r","o">>,
          <<"b","a","r","o","m","e","t","e","r">>,
          <<"c","l","i","m","b","i","n","g">>,
          <<"s","i","n","k","i","n","g">>,
          <<"a","l","t","i","t","u","d","e"," ","d","r","i","f","t">>,
          <<"p","o","s","i","t","i","o","n"," ","h","o","l","d"," ","a","l","t","i","t","u","d","e">>,
          <<"v","a","r","i","o">>,
          <<"a","l","t"," ","n","o","t"," ","h","o","l","d","i","n","g">>>>

\* len(keyword.split()): the number of whitespace-separated words.
RECURSIVE WordCountFrom(_, _, _)
WordCountFrom(s, i, inWord) ==
    IF i > Len(s) THEN 0
    ELSE IF IsSpace(s[i]) THEN WordCountFrom(s, i + 1, FALSE)
    ELSE (IF inWord THEN 0 ELSE 1) + WordCountFrom(s, i + 1, TRUE)

WordCount(s) == WordCountFrom(s, 1, FALSE)

\* user_text.lower().strip() without the lower-casing.
NormalizeTextKeepCase(t) == Strip(t)

\* text_lower = user_text.lower().strip()
NormalizeText(t) == Strip(Lower(t))

\* Twice the weight of one hit: 1.0 + (words - 1) * 0.5, counted in halves.
HitWeight2(keyword) == 2 + (WordCount(keyword) - 1)

\* Twice weighted_hits: the keywords of the list found in the text.
RECURSIVE WeightedHits2(_, _, _)
WeightedHits2(text_lower, keywords, i) ==
    IF i > Len(keywords) THEN 0
    ELSE (IF Contains(text_lower, keywords[i]) THEN HitWeight2(keywords[i]) ELSE 0)
         + WeightedHits2(text_lower, keywords, i + 1)

Max2(a, b) == IF a >= b THEN a ELSE b

\* confidence = min(1.0, min(1.0, weighted_hits / max(n, 1)) * 3.5), as the
\* exact fraction num/den.
Confidence(hits2, num_keywords) ==
    LET n == Max2(num_keywords, 1)
        raw == IF hits2 >= 2 * n THEN [num |-> 1, den |-> 1]
               ELSE [num |-> hits2, den |-> 2 * n]
    IN IF 7 * raw.num >= 2 * raw.den THEN [num |-> 1, den |-> 1]
       ELSE [num |-> 7 * raw.num, den |-> 2 * raw.den]

\* confidence > 0.2
AboveCutOff(c) == 5 * c.num > c.den

\* round(confidence, 2) in hundredths; a value exactly half way goes to the
\* even neighbour.
RoundHundredths(c) ==
    LET q == (100 * c.num) \div c.den
        r == (100 * c.num) % c.den
    IN IF 2 * r > c.den THEN q + 1
       ELSE IF 2 * r < c.den THEN q
       ELSE IF q % 2 = 0 THEN q ELSE q + 1

KeyRank(key) == CHOOSE i \in 1..Len(SymptomKeyOrder) : SymptomKeyOrder[i] = key

\* The sort key (-score, key).
MatchLt(a, b) ==
    \/ a.score > b.score
    \/ a.score = b.score /\ KeyRank(a.key) < KeyRank(b.key)

RECURSIVE InsertMatch(_, _)
InsertMatch(sorted, x) ==
    IF Len(sorted) = 0 THEN <<x>>
    ELSE IF MatchLt(x, Head(sorted)) THEN <<x>> \o sorted
    ELSE <<Head(sorted)>> \o InsertMatch(Tail(sorted), x)

RECURSIVE SortMatches(_)
SortMatches(s) ==
    IF Len(s) = 0 THEN <<>>
    ELSE InsertMatch(SortMatches(SubSeq(s, 1, Len(s) - 1)), s[Len(s)])

\* The tail of the loop body for one symptom with its weighted hits.
Candidate(key, hits2, num_keywords) ==
    IF hits2 > 0 /\ AboveCutOff(Confidence(hits2, num_keywords))
    THEN <<[key |-> key, score |-> RoundHundredths(Confidence(hits2, num_keywords))]>>
    ELSE <<>>

\* The loop over the keyword table: one candidate per symptom with a hit
\* and a confidence above the cut-off.
RECURSIVE ScoreSymptoms(_, _)
ScoreSymptoms(text_lower, i) ==
    IF i > Len(SymptomKeys) THEN <<>>
    ELSE Candidate(SymptomKeys[i],
                   WeightedHits2(text_lower, _SYMPTOM_KEYWORDS[SymptomKeys[i]], 1),
                   Len(_SYMPTOM_KEYWORDS[SymptomKeys[i]]))
         \o ScoreSymptoms(text_lower, i + 1)

\* The body of match_symptom on the normalised text.
MatchNormalized(text_lower) ==
    IF Len(text_lower) = 0 THEN <<>>
    ELSE SortMatches(ScoreSymptoms(text_lower, 1))

match_symptom(t) == MatchNormalized(NormalizeText(t))

(***************************************************************************)
(* SpecMatch: match_symptom applied to one text.                           *)
(***************************************************************************)

\* Every keyword of the table.
AllKeywords == UNION {SeqToSet(_SYMPTOM_KEYWORDS[SymptomKeys[i]]) : i \in 1..Len(SymptomKeys)}

\* s.swapcase() and s.capitalize()
SwapCase(s) == [i \in 1..Len(s) |-> IF s[i] \in LowerCase THEN ToUpper(s[i]) ELSE ToLower(s[i])]
Capitalize(s) == [i \in 1..Len(s) |-> IF i = 1 THEN ToUpper(s[i]) ELSE ToLower(s[i])]

\* Every second letter in upper case.
Alternate(s) == [i \in 1..Len(s) |-> IF i % 2 = 0 THEN ToUpper(s[i]) ELSE ToLower(s[i])]

\* Texts that differ from t in letter case only.
CaseVariants(t) == {Lower(t), Upper(t), SwapCase(t), Capitalize(t), Alternate(t)}

\* Sentences a user may type, with several hits, none, or only blanks.
MatchSentences ==
    {<<>>, <<" "," "," ">>, <<"h","e","l","l","o">>, <<"i","t"," ","d","r","i","f","t","s">>, <<" ","N","o"," ","V","i","d","e","o"," ">>,
     <<"M","y"," ","q","u","a","d"," ","w","o","n","'","t"," ","a","r","m"," ","a","n","d"," ","t","h","e"," ","m","o","t","o","r","s"," ","a","r","e"," ","d","e","a","d">>,
     <<"v","i","d","e","o"," ","s","t","a","t","i","c"," ","o","n"," ","t","h","e"," ","o","s","d">>, <<"V","T","X">>, <<"G","P","S"," ","n","o","t"," ","w","o","r","k","i","n","g",","," ","z","e","r","o"," ","s","a","t","e","l","l","i","t","e","s">>,
     <<"F","l","i","p","s"," ","o","n"," ","t","a","k","e","o","f","f">>, <<"f","a","i","l","s","a","f","e">>, <<"s","h","o","r","t"," ","f","l","i","g","h","t"," ","t","i","m","e"," ","a","n","d"," ","b","a","t","t","e","r","y"," ","s","a","g">>,
     <<"J","e","l","l","o"," ","i","n"," ","t","h","e"," ","v","i","d","e","o"," ","a","n","d"," ","h","o","t"," ","m","o","t","o","r","s">>, <<"c","o","m","p","a","s","s"," ","t","o","i","l","e","t"," ","b","o","w","l">>}

\* The texts the function is applied to: every keyword on its own, as
\* listed and in other letter cases, and the sentences.
MatchTexts ==
    AllKeywords \cup {Upper(k) : k \in AllKeywords}
                \cup {Capitalize(k) : k \in AllKeywords}
                \cup MatchSentences

InitMatch ==
    /\ build = <<>>
    /\ user_text \in MatchTexts
    /\ matches = NoCall
    /\ EvalIdle /\ ReportIdle /\ FwIdle /\ DiagIdle /\ DiffIdle /\ ExprIdle /\ SerialIdle

MatchSymptom ==
    /\ matches = NoCall
    /\ matches' = [kind |-> "matches", items |-> match_symptom(user_text)]
    /\ UNCHANGED <<build, evalVars, reportVars, fwVars, diagVars, serialVars, exprVars, diffVars, user_text>>

NextMatch == MatchSymptom

SpecMatch == InitMatch /\ [][NextMatch]_vars

Matched == matches # NoCall

MatchedKeys == {matches.items[i].key : i \in 1..Len(matches.items)}

\* C22: a text that is exactly one keyword of a symptom's list is matched
\* to that symptom: the returned list contains the symptom's key.
C22_EveryKeywordMatches ==
    \A i \in 1..Len(SymptomKeys) :
        (Matched /\ user_text \in SeqToSet(_SYMPTOM_KEYWORDS[SymptomKeys[i]]))
            => SymptomKeys[i] \in MatchedKeys

\* The text is a keyword of no_video on its own and nothing is returned.
C22_Witness ==
    /\ Matched
    /\ user_text \in SeqToSet(_SYMPTOM_KEYWORDS["no_video"])
    /\ Len(matches.items) = 0

\* C23: matching is case-insensitive: a text that differs from the matched
\* one in letter case only gives the same keys with the same scores in the
\* same order.
C23_CaseInsensitive ==
    Matched => \A v \in CaseVariants(user_text) : match_symptom(v) = matches.items

\* A text with upper-case letters has been matched to at least one symptom.
C23_Witness ==
    /\ Matched
    /\ \E i \in 1..Len(user_text) : user_text[i] \in UpperCase
    /\ Len(matches.items) > 0

-----------------------------------------------------------------------------
(* The two engines on protocol compatibility *)

BothReturned == FwReturned /\ DiscCalled /\ discrepancies.kind = "list"

\* C30: the two engines never disagree on protocol compatibility: on the
\* same snapshot and build, detect_discrepancies reports disc_002 exactly
\* when the report of validate_firmware_config holds a failing fw_004, and
\* disc_004 exactly when it holds a failing fw_001.
C30_ProtocolChecksAgree ==
    BothReturned =>
        /\ Reported(<<"d","i","s","c","_","0","0","2">>) <=> FwFailed(<<"f","w","_","0","0","4">>)
        /\ Reported(<<"d","i","s","c","_","0","0","4">>) <=> FwFailed(<<"f","w","_","0","0","1">>)

\* Both engines have run on a build and snapshot whose receiver and motor
\* protocols both mismatch, and both report both.
C30_Witness ==
    /\ BothReturned
    /\ Reported(<<"d","i","s","c","_","0","0","2">>) /\ FwFailed(<<"f","w","_","0","0","4">>)
    /\ Reported(<<"d","i","s","c","_","0","0","4">>) /\ FwFailed(<<"f","w","_","0","0","1">>)

-----------------------------------------------------------------------------
(***************************************************************************)
(* SpecExpr: _eval_expression applied to one expression on one build.      *)
(***************************************************************************)

\* The text _eval_expression passes to eval, resolved being the outcome of
\* the substitution loop; None when it returns before the call.
EvalArgument(resolved) ==
    IF IsNone(resolved) THEN None
    ELSE IF \E i \in 1..Len(resolved.v) : ~SafeChar(resolved.v[i]) THEN None
    ELSE PyStr(Replace(Replace(resolved.v, <<"&","&">>, <<" ","a","n","d"," ">>), <<"|","|">>, <<" ","o","r"," ">>))

\* The expression after the substitution loop: None when a token did not
\* resolve.
Substituted(expr, b) == Substitute(expr, LongestFirst(SeqToSet(FindTokens(expr))), b)

p_telemetry == <<"r","e","c","e","i","v","e","r",".","t","e","l","e","m","e","t","r","y">>

\* A comparison of two operands, each a dot-path or a literal.
Comparison(lhs, op, rhs) == [lhs |-> lhs, op |-> op, rhs |-> rhs]
ComparisonText(c) == c.lhs \o <<" ">> \o c.op \o <<" ">> \o c.rhs

FieldComparisons ==
    {Comparison(p_cells, <<"<","=">>, p_vmax), Comparison(p_cells, <<"=","=">>, <<"4">>),
     Comparison(p_motor_count, <<">">>, <<"1">>), Comparison(<<"b","u","i","l","d",".","a","l","l","_","u","p","_","w","e","i","g","h","t","_","g">>, <<"<">>, <<"2","5","0">>),
     Comparison(p_firmware, <<"=","=">>, p_firmware), Comparison(p_firmware, <<"!","=">>, <<"e","s","c",".","m","o","d","e","l">>),
     Comparison(p_telemetry, <<"=","=">>, <<"t","r","u","e">>), Comparison(p_telemetry, <<"!","=">>, <<"f","a","l","s","e">>),
     Comparison(p_telemetry, <<"=","=">>, p_telemetry), Comparison(p_gps_fix, <<"=","=">>, <<"t","r","u","e">>)}

\* Expressions with words, names and characters of every kind.
OtherExpressions ==
    {<<"a","b","c"," ",">"," ","1">>, <<"T","r","u","e">>, <<"4"," ","<"," ","5"," ","a","n","d"," ","T","r","u","e">>, <<"n","o","t"," ","F","a","l","s","e">>, <<"N","o","n","e">>, <<"t","r","u","e">>, <<"f","a","l","s","e"," ","o","r"," ","4">>,
     <<"m","o","t","o","r","_","c","o","u","n","t"," ",">"," ","1">>, <<"b","a","t","t","e","r","y",".","c","e","l","l","_","c","o","u","n","t"," ","%"," ","2">>, <<"4"," ","<"," ","5"," ",";"," ","1">>, <<"[","4","]">>, <<"'","a","'"," ","=","="," ","'","a","'">>,
     <<"4"," ","<"," ","5"," ","&","&"," ","3"," ","<"," ","4">>, <<"4"," ",">"," ","5"," ","|","|"," ","3"," ","<"," ","4">>, <<"e","s","c",".","f","i","r","m","w","a","r","e">>, <<"r","e","c","e","i","v","e","r",".","t","e","l","e","m","e","t","r","y">>,
     <<"n","o","t"," ","r","e","c","e","i","v","e","r",".","t","e","l","e","m","e","t","r","y">>, <<"b","a","t","t","e","r","y",".","c","e","l","l","_","c","o","u","n","t"," ","<"," ","5"," ","a","n","d"," ","x">>, <<"b","a","t","t","e","r","y",".","c","e","l","l","_","c","o","u","n","t"," ","+"," ","1">>, <<>>}

ExprTexts == Expressions \cup {ComparisonText(c) : c \in FieldComparisons} \cup OtherExpressions

Receiver(telemetry) ==
    Component(<<"r","x">>, s_receiver, PyInt(2), (<<"t","e","l","e","m","e","t","r","y">> :> PyBool(telemetry)))

ExprBuilds ==
    EvalBuilds
    \cup {MkBuild((s_battery :> One(Battery(MinCells))) @@ (s_esc :> One(Esc4S))
                  @@ (s_receiver :> One(Receiver(t)))) : t \in BOOLEAN}

InitExpr ==
    /\ build \in ExprBuilds
    /\ expr_text \in ExprTexts
    /\ eval_arg = NoCall
    /\ expr_value = NoCall
    /\ EvalIdle /\ ReportIdle /\ FwIdle /\ DiagIdle /\ DiffIdle /\ MatchIdle /\ SerialIdle

EvalExpression ==
    /\ expr_value = NoCall
    /\ eval_arg' = EvalArgument(Substituted(expr_text, build))
    /\ expr_value' = eval_expression(expr_text, build)
    /\ UNCHANGED <<build, evalVars, reportVars, fwVars, diagVars, serialVars, diffVars, matchVars, expr_text>>

NextExpr == EvalExpression

SpecExpr == InitExpr /\ [][NextExpr]_vars

Applied == expr_value # NoCall

\* The words of a text: its maximal runs of letters.
Words(s) ==
    {SubSeq(s, p[1], p[2]) :
        p \in {q \in (1..Len(s)) \X (1..Len(s)) :
                  /\ q[1] <= q[2]
                  /\ \A k \in q[1]..q[2] : IsAlpha(s[k])
                  /\ q[1] = 1 \/ ~IsAlpha(s[q[1] - 1])
                  /\ q[2] = Len(s) \/ ~IsAlpha(s[q[2] + 1])}}

SafeWords == {<<"a","n","d">>, <<"o","r">>, <<"n","o","t">>, <<"t","r","u","e">>, <<"f","a","l","s","e">>}

\* The characters of the safe set that are no letters.
SafeSymbol(c) ==
    \/ c \in Digit
    \/ c \in {".", "+", "-", "*", "/", "(", ")", "<", ">", "=", "!", "&", "|"}
    \/ IsSpace(c)

\* Every token resolved, and the text after substitution.
AllResolved == ~IsNone(Substituted(expr_text, build))
SubstitutedText == Substituted(expr_text, build).v

HasUnsafeSymbol ==
    \E i \in 1..Len(SubstitutedText) :
        ~SafeSymbol(SubstitutedText[i]) /\ ~IsAlpha(SubstitutedText[i])
HasOtherWord == \E w \in Words(SubstitutedText) : w \notin SafeWords

Rejected == expr_value = None /\ eval_arg = None

\* C25: after substitution, an expression with a character outside the
\* safe set (digits . + - * / ( ) < > = ! & | and whitespace) or with a
\* word other than and, or, not, true, false is rejected: the outcome is
\* None and no text is handed to eval.
C25_UnsafeRejected ==
    (Applied /\ AllResolved /\ (HasUnsafeSymbol \/ HasOtherWord)) => Rejected

\* The part of C25 the sanitizer keeps: a character that is neither in the
\* safe set nor a letter.
C25_UnsafeSymbolRejected ==
    (Applied /\ AllResolved /\ HasUnsafeSymbol) => Rejected

\* An expression with the word True went to eval and came back as a value.
C25_Witness ==
    /\ Applied
    /\ AllResolved
    /\ <<"T","r","u","e">> \in Words(SubstitutedText)
    /\ eval_arg # None
    /\ expr_value = PyBool(TRUE)

\* the tokens of the expression all resolve, to numbers, booleans or texts
ResolveToScalars ==
    \A tok \in SeqToSet(FindTokens(expr_text)) :
        resolve_field(PyStr(tok), build).t \in {"int", "float", "bool", "str"}

\* the value of a comparison on the values its two sides stand for
ComparisonValue(c) ==
    Compare(c.op, resolve_field(PyStr(c.lhs), build), resolve_field(PyStr(c.rhs), build))

TextOrBool(c) ==
    \/ resolve_field(PyStr(c.lhs), build).t \in {"bool", "str"}
    \/ resolve_field(PyStr(c.rhs), build).t \in {"bool", "str"}

\* C26: when every dot-path token of the expression resolves to a number,
\* a boolean or a text, _eval_expression returns the value of the
\* expression on those values; a comparison of a boolean or text field
\* gives its truth value.
C26_ComparisonValue ==
    \A c \in FieldComparisons :
        (Applied /\ expr_text = ComparisonText(c) /\ ResolveToScalars)
            => expr_value = ComparisonValue(c)

\* The part of C26 that holds: comparisons of numbers.
C26_NumberComparisonValue ==
    \A c \in FieldComparisons :
        (Applied /\ expr_text = ComparisonText(c) /\ ResolveToScalars /\ ~TextOrBool(c))
            => expr_value = ComparisonValue(c)

\* A comparison of a boolean field that resolves came back as None.
C26_Witness ==
    /\ Applied
    /\ expr_text = ComparisonText(Comparison(p_telemetry, <<"=","=">>, <<"t","r","u","e">>))
    /\ ResolveToScalars
    /\ expr_value = None

-----------------------------------------------------------------------------
(***************************************************************************)
(* The connection registry of fc_serial/connection.py under concurrent     *)
(* callers.  registry holds _connections (port -> connection, 0 for no     *)
(* entry), the holder of _registry_lock (0 when free) and the FCConnection *)
(* objects made so far, each with its port and whether its serial handle   *)
(* is open.  A connection is named by its position in that list.  Each     *)
(* method of FCConnection runs under the connection's own lock and is one  *)
(* step.                                                                   *)
(***************************************************************************)

\* FCConnection objects made in one run
MaxConnections == 3

SerialPaths == {"ttyACM0", "ttyACM1"}
Callers == {1, 2}

nonSerialVars == <<build, evalVars, reportVars, fwVars, diagVars, diffVars, matchVars, exprVars>>

EmptyRegistry == [connections |-> [p \in SerialPaths |-> 0], lock |-> 0, conns |-> <<>>]

\* FCConnection.is_open
IsOpen(reg, c) == reg.conns[c].open
\* conn and conn.is_open
OpenConn(reg, c) == c # 0 /\ IsOpen(reg, c)

\* FCConnection.close()
CloseConn(reg, c) == [reg EXCEPT !.conns[c].open = FALSE]

\* FCConnection(port, baudrate) followed by a successful open()
NewOpenConn(reg, port) == [reg EXCEPT !.conns = Append(@, [port |-> port, open |-> TRUE])]

\* a variant of the lock that every thread passes
LockPassed == TRUE

\* with _registry_lock: the lock can be taken
LockFree == registry.lock = 0

Release(reg) == [reg EXCEPT !.lock = 0]

IdleCaller == [pc |-> "idle", op |-> "none", port |-> "", conn |-> 0, ret |-> "none"]

\* a caller enters one of the three functions and takes the lock
Acquire(t, op, port) ==
    /\ callers[t].pc = "idle"
    /\ LockFree
    /\ op = "open" => Len(registry.conns) < MaxConnections
    /\ registry' = [registry EXCEPT !.lock = t]
    /\ callers' = [callers EXCEPT ![t] = [pc |-> op, op |-> op, port |-> port, conn |-> 0, ret |-> "none"]]
    /\ UNCHANGED <<nonSerialVars, readers, wire>>

\* open_connection: existing = _connections.get(port); close it when open
OpenCloseExisting(t) ==
    /\ callers[t].pc = "open"
    /\ LET existing == registry.connections[callers[t].port]
       IN registry' = IF OpenConn(registry, existing) THEN CloseConn(registry, existing)
                      ELSE registry
    /\ callers' = [callers EXCEPT ![t].pc = "open_new"]
    /\ UNCHANGED <<nonSerialVars, readers, wire>>

\* open_connection: conn = FCConnection(port, baudrate); conn.open()
OpenNew(t) ==
    /\ callers[t].pc = "open_new"
    /\ registry' = NewOpenConn(registry, callers[t].port)
    /\ callers' = [callers EXCEPT ![t].pc = "open_register", ![t].conn = Len(registry.conns) + 1]
    /\ UNCHANGED <<nonSerialVars, readers, wire>>

\* open_connection: serial.Serial raises in conn.open(); the exception
\* leaves the with block and the function
OpenFails(t) ==
    /\ callers[t].pc = "open_new"
    /\ registry' = Release(registry)
    /\ callers' = [callers EXCEPT ![t].pc = "idle", ![t].ret = "raised"]
    /\ UNCHANGED <<nonSerialVars, readers, wire>>

\* open_connection: _connections[port] = conn; return conn
OpenRegister(t) ==
    /\ callers[t].pc = "open_register"
    /\ registry' = Release([registry EXCEPT !.connections[callers[t].port] = callers[t].conn])
    /\ callers' = [callers EXCEPT ![t].pc = "idle", ![t].ret = "conn"]
    /\ UNCHANGED <<nonSerialVars, readers, wire>>

\* close_connection: conn = _connections.pop(port, None)
ClosePop(t) ==
    /\ callers[t].pc = "close"
    /\ registry' = [registry EXCEPT !.connections[callers[t].port] = 0]
    /\ callers' = [callers EXCEPT ![t].pc = "close_conn",
                                  ![t].conn = registry.connections[callers[t].port]]
    /\ UNCHANGED <<nonSerialVars, readers, wire>>

\* close_connection: close it when open and return True, else False
CloseClose(t) ==
    /\ callers[t].pc = "close_conn"
    /\ registry' = Release(IF OpenConn(registry, callers[t].conn)
                           THEN CloseConn(registry, callers[t].conn) ELSE registry)
    /\ callers' = [callers EXCEPT ![t].pc = "idle",
                                  ![t].ret = IF OpenConn(registry, callers[t].conn) THEN "True" ELSE "False"]
    /\ UNCHANGED <<nonSerialVars, readers, wire>>

\* get_connection: the registered connection when it is open, else None
GetLookup(t) ==
    /\ callers[t].pc = "get"
    /\ registry' = Release(registry)
    /\ LET conn == registry.connections[callers[t].port]
       IN callers' = [callers EXCEPT ![t].pc = "idle",
                                     ![t].conn = IF OpenConn(registry, conn) THEN conn ELSE 0,
                                     ![t].ret = IF OpenConn(registry, conn) THEN "conn" ELSE "None"]
    /\ UNCHANGED <<nonSerialVars, readers, wire>>

InitRegistry ==
    /\ build = <<>>
    /\ registry = EmptyRegistry
    /\ callers = [t \in Callers |-> IdleCaller]
    /\ readers = <<>>
    /\ wire = <<>>
    /\ EvalIdle /\ ReportIdle /\ FwIdle /\ DiagIdle /\ DiffIdle /\ MatchIdle /\ ExprIdle

NextRegistry ==
    \E t \in Callers :
        \/ \E op \in {"open", "close", "get"}, port \in SerialPaths : Acquire(t, op, port)
        \/ OpenCloseExisting(t)
        \/ OpenNew(t)
        \/ OpenFails(t)
        \/ OpenRegister(t)
        \/ ClosePop(t)
        \/ CloseClose(t)
        \/ GetLookup(t)

SpecRegistry == InitRegistry /\ [][NextRegistry]_vars

\* the open connections of a port
OpenOn(port) ==
    {c \in 1..Len(registry.conns) : registry.conns[c].port = port /\ registry.conns[c].open}

\* C24: under any interleaving of open_connection, close_connection and
\* get_connection by concurrent threads, no port ever has two open
\* FCConnection objects, and outside a call an open connection is the one
\* the registry holds for its port.
C24_OneOpenPerPort ==
    \A port \in SerialPaths :
        /\ Cardinality(OpenOn(port)) <= 1
        /\ registry.lock = 0 => OpenOn(port) \subseteq {registry.connections[port]}

\* A port was opened again while its connection was open: the older
\* connection is closed, the newer is open and registered, and the caller
\* that opened it has it as its return value.
C24_Witness ==
    \E port \in SerialPaths, c \in 1..Len(registry.conns), d \in 1..Len(registry.conns) :
        /\ c < d
        /\ registry.conns[c].port = port /\ ~registry.conns[c].open
        /\ registry.conns[d].port = port /\ registry.conns[d].open
        /\ registry.connections[port] = d
        /\ \E t \in Callers : callers[t].ret = "conn" /\ callers[t].conn = d

-----------------------------------------------------------------------------
(***************************************************************************)
(* The serial routes of web/routes/serial.py: request threads serving      *)
(* /serial/connect, /serial/disconnect and /serial/diff-all on one port,   *)
(* the reader threads they start, and the flight controller at the other   *)
(* end of the port.  The server handles                                    *)
(* requests in threads (async_mode "threading").  A call of a registry     *)
(* function is one step, as _registry_lock makes it, and so is a method    *)
(* of FCConnection.                                                        *)
(*                                                                         *)
(* readers holds _reader_threads (port -> thread, 0 for no entry) and the  *)
(* threads started so far, each with its port, its position in             *)
(* reader_loop and the connection it last fetched.  wire holds the bytes   *)
(* the flight controller has still to send (fc), the bytes waiting in the  *)
(* port's input buffer (rx), what serial_output events carried to the      *)
(* terminal, and whether a connection_status event with connected False    *)
(* was emitted since open_connection last succeeded.  Bytes travel in      *)
(* chunks: "banner#" for the reply to "#", and "diff1" "diff2" "#" for the *)
(* reply to "diff all"; "banner#" and "#" end with the prompt.             *)
(***************************************************************************)

\* /serial/connect requests that open a connection, reader threads started
\* and /serial/diff-all requests served in one run
MaxConnects == 2
MaxReaders == 2
MaxConfigReads == 1

ThePort == "ttyACM0"

\* get_connection(port), the lock held for the call
get_connection(reg, port) ==
    IF OpenConn(reg, reg.connections[port]) THEN reg.connections[port] ELSE 0

\* open_connection(port): the registry after a call that returns
open_connection(reg, port) ==
    LET closed == IF OpenConn(reg, reg.connections[port])
                  THEN CloseConn(reg, reg.connections[port]) ELSE reg
    IN [NewOpenConn(closed, port) EXCEPT !.connections[port] = Len(reg.conns) + 1]

\* open_connection(port): the registry after a call in which serial.Serial raised
open_connection_raised(reg, port) ==
    IF OpenConn(reg, reg.connections[port]) THEN CloseConn(reg, reg.connections[port]) ELSE reg

\* close_connection(port)
close_connection(reg, port) ==
    [(IF OpenConn(reg, reg.connections[port]) THEN CloseConn(reg, reg.connections[port]) ELSE reg)
        EXCEPT !.connections[port] = 0]

\* get_active_port(): a port whose registered connection is open, "" for None
get_active_port(reg) ==
    IF \E p \in SerialPaths : OpenConn(reg, reg.connections[p])
    THEN CHOOSE p \in SerialPaths : OpenConn(reg, reg.connections[p])
    ELSE ""

\* a request thread between requests, and the locals of a handler
IdleRequest == [pc |-> "idle", port |-> "", conn |-> 0, buffer |-> <<>>, thread |-> 0]

\* no /serial/diff-all request has answered with a configuration yet
NoAnswer == <<"none">>

NoReaders == [threads |-> [p \in SerialPaths |-> 0], pool |-> <<>>]
QuietWire ==
    [fc |-> <<>>, rx |-> <<>>, terminal |-> <<>>, disconnected |-> FALSE, reads |-> 0,
     raw_text |-> NoAnswer]

\* Thread.is_alive()
IsAlive(r) == readers.pool[r].pc # "done"

\* the handler answers with the given status and its thread is free again
Return(t, status) == [callers EXCEPT ![t] = IdleRequest]

(* /serial/connect *)

\* conn = open_connection(port, baudrate)
ConnectOpen(t) ==
    /\ callers[t].pc = "idle"
    /\ Len(registry.conns) < MaxConnects
    /\ registry' = open_connection(registry, ThePort)
    /\ callers' = [callers EXCEPT ![t] = [IdleRequest EXCEPT !.pc = "start_check", !.port = ThePort]]
    /\ wire' = [wire EXCEPT !.disconnected = FALSE]
    /\ UNCHANGED <<nonSerialVars, readers>>

\* open_connection raises: the handler answers 500
ConnectFails(t) ==
    /\ callers[t].pc = "idle"
    /\ registry' = open_connection_raised(registry, ThePort)
    /\ callers' = Return(t, "500")
    /\ UNCHANGED <<nonSerialVars, readers, wire>>

\* port in _reader_threads and _reader_threads[port].is_alive()
ReaderRegistered(port) ==
    readers.threads[port] # 0 /\ IsAlive(readers.threads[port])

\* _start_reader_thread: return when the port has a live thread
StartCheck(t) ==
    /\ callers[t].pc = "start_check"
    /\ callers' = IF ReaderRegistered(callers[t].port) THEN Return(t, "200")
                  ELSE [callers EXCEPT ![t].pc = "start_thread"]
    /\ UNCHANGED <<nonSerialVars, registry, readers, wire>>

\* thread = threading.Thread(target=reader_loop, ...); thread.start()
StartThread(t) ==
    /\ callers[t].pc = "start_thread"
    /\ Len(readers.pool) < MaxReaders
    /\ readers' = [readers EXCEPT !.pool = Append(@, [port |-> callers[t].port, pc |-> "loop", conn |-> 0])]
    /\ callers' = [callers EXCEPT ![t].pc = "start_register", ![t].thread = Len(readers.pool) + 1]
    /\ UNCHANGED <<nonSerialVars, registry, wire>>

\* _reader_threads[port] = thread, and the handler answers
StartRegister(t) ==
    /\ callers[t].pc = "start_register"
    /\ readers' = [readers EXCEPT !.threads[callers[t].port] = callers[t].thread]
    /\ callers' = Return(t, "200")
    /\ UNCHANGED <<nonSerialVars, registry, wire>>

(* /serial/disconnect *)

\* port = get_active_port()
DisconnectActivePort(t) ==
    /\ callers[t].pc = "idle"
    /\ callers' = IF get_active_port(registry) = "" THEN Return(t, "200")
                  ELSE [callers EXCEPT ![t] = [IdleRequest EXCEPT !.pc = "disconnect_close",
                                                                  !.port = get_active_port(registry)]]
    /\ UNCHANGED <<nonSerialVars, registry, readers, wire>>

\* close_connection(port)
DisconnectClose(t) ==
    /\ callers[t].pc = "disconnect_close"
    /\ registry' = close_connection(registry, callers[t].port)
    /\ callers' = Return(t, "200")
    /\ UNCHANGED <<nonSerialVars, readers, wire>>

(* reader_loop *)

\* conn = get_connection(port); leave the loop on None
ReaderGet(r) ==
    /\ r <= Len(readers.pool)
    /\ readers.pool[r].pc = "loop"
    /\ LET conn == get_connection(registry, readers.pool[r].port)
       IN readers' = [readers EXCEPT !.pool[r].conn = conn,
                                     !.pool[r].pc = IF conn = 0 THEN "exit" ELSE "is_open"]
    /\ UNCHANGED <<nonSerialVars, registry, callers, wire>>

\* ... or not conn.is_open
ReaderIsOpen(r) ==
    /\ r <= Len(readers.pool)
    /\ readers.pool[r].pc = "is_open"
    /\ readers' = [readers EXCEPT !.pool[r].pc =
                       IF IsOpen(registry, readers.pool[r].conn) THEN "in_waiting" ELSE "exit"]
    /\ UNCHANGED <<nonSerialVars, registry, callers, wire>>

\* conn.in_waiting > 0, which is 0 on a closed connection; else sleep and
\* go round
ReaderInWaiting(r) ==
    /\ r <= Len(readers.pool)
    /\ readers.pool[r].pc = "in_waiting"
    /\ readers' = [readers EXCEPT !.pool[r].pc =
                       IF IsOpen(registry, readers.pool[r].conn) /\ Len(wire.rx) > 0
                       THEN "read_all" ELSE "loop"]
    /\ UNCHANGED <<nonSerialVars, registry, callers, wire>>

\* data = conn.read_all(), emitted as serial_output; a closed connection
\* raises, which ends the loop
ReaderReadAll(r) ==
    /\ r <= Len(readers.pool)
    /\ readers.pool[r].pc = "read_all"
    /\ IF IsOpen(registry, readers.pool[r].conn)
       THEN /\ wire' = [wire EXCEPT !.rx = <<>>, !.terminal = @ \o wire.rx]
            /\ readers' = [readers EXCEPT !.pool[r].pc = "loop"]
       ELSE /\ wire' = wire
            /\ readers' = [readers EXCEPT !.pool[r].pc = "exit"]
    /\ UNCHANGED <<nonSerialVars, registry, callers>>

\* after the loop: emit connection_status with connected False, and end
ReaderExit(r) ==
    /\ r <= Len(readers.pool)
    /\ readers.pool[r].pc = "exit"
    /\ wire' = [wire EXCEPT !.disconnected = TRUE]
    /\ readers' = [readers EXCEPT !.pool[r].pc = "done", !.pool[r].conn = 0]
    /\ UNCHANGED <<nonSerialVars, registry, callers>>

(* /serial/diff-all, with enter_cli_mode, get_diff_all and exit_cli_mode *)

EndsWithPrompt(chunk) == chunk \in {"banner#", "#"}
EnterReply == <<"banner#">>
DiffAllReply == <<"diff1", "diff2", "#">>

\* port = get_active_port(), 400 on None
DiffActivePort(t) ==
    /\ callers[t].pc = "idle"
    /\ wire.reads < MaxConfigReads
    /\ wire' = [wire EXCEPT !.reads = @ + 1]
    /\ callers' = IF get_active_port(registry) = "" THEN Return(t, "400")
                  ELSE [callers EXCEPT ![t] = [IdleRequest EXCEPT !.pc = "diff_get",
                                                                  !.port = get_active_port(registry)]]
    /\ UNCHANGED <<nonSerialVars, registry, readers>>

\* conn = get_connection(port), 500 on None
DiffGetConnection(t) ==
    /\ callers[t].pc = "diff_get"
    /\ LET conn == get_connection(registry, callers[t].port)
       IN callers' = IF conn = 0 THEN Return(t, "500")
                     ELSE [callers EXCEPT ![t].pc = "enter_write", ![t].conn = conn]
    /\ UNCHANGED <<nonSerialVars, registry, readers, wire>>

\* conn.write of "#", "diff all" or "exit": a closed connection raises and
\* the handler answers 500; else the flight controller has its reply to
\* send, and after "exit" the handler answers with the text get_diff_all
\* returned
CliWrite(t) ==
    /\ callers[t].pc \in {"enter_write", "diff_write", "exit_write"}
    /\ IF ~IsOpen(registry, callers[t].conn)
       THEN /\ callers' = Return(t, "500")
            /\ wire' = wire
       ELSE /\ callers' = IF callers[t].pc = "exit_write" THEN Return(t, "200")
                          ELSE [callers EXCEPT ![t].buffer = <<>>,
                                               ![t].pc = IF callers[t].pc = "enter_write"
                                                         THEN "enter_read" ELSE "diff_read"]
            /\ wire' = CASE callers[t].pc = "enter_write" -> [wire EXCEPT !.fc = @ \o EnterReply]
                         [] callers[t].pc = "diff_write" -> [wire EXCEPT !.fc = @ \o DiffAllReply]
                         [] OTHER -> [wire EXCEPT !.raw_text = callers[t].buffer]
    /\ UNCHANGED <<nonSerialVars, registry, readers>>

\* _read_until_prompt: chunk = conn.read(1024) with bytes waiting; the
\* loop ends when the text read so far ends with the prompt
CliRead(t) ==
    /\ callers[t].pc \in {"enter_read", "diff_read"}
    /\ IsOpen(registry, callers[t].conn)
    /\ Len(wire.rx) > 0
    /\ wire' = [wire EXCEPT !.rx = <<>>]
    /\ callers' = [callers EXCEPT ![t].buffer = @ \o wire.rx,
                                  ![t].pc = IF ~EndsWithPrompt(wire.rx[Len(wire.rx)]) THEN @
                                            ELSE IF @ = "enter_read" THEN "diff_write" ELSE "exit_write"]
    /\ UNCHANGED <<nonSerialVars, registry, readers>>

\* _read_until_prompt: conn.read on a closed connection raises
CliReadRaises(t) ==
    /\ callers[t].pc \in {"enter_read", "diff_read"}
    /\ ~IsOpen(registry, callers[t].conn)
    /\ callers' = Return(t, "500")
    /\ UNCHANGED <<nonSerialVars, registry, readers, wire>>

\* _read_until_prompt: the deadline passes with nothing left to come, and
\* what was read is returned
CliTimeout(t) ==
    /\ callers[t].pc \in {"enter_read", "diff_read"}
    /\ IsOpen(registry, callers[t].conn)
    /\ Len(wire.rx) = 0 /\ Len(wire.fc) = 0
    /\ callers' = [callers EXCEPT ![t].pc = IF @ = "enter_read" THEN "diff_write" ELSE "exit_write"]
    /\ UNCHANGED <<nonSerialVars, registry, readers, wire>>

(* the flight controller *)

\* the flight controller sends its next chunk: into the input buffer of an
\* open port, nowhere when the port is closed
FcSend ==
    /\ Len(wire.fc) > 0
    /\ wire' = [wire EXCEPT !.fc = Tail(@),
                            !.rx = IF get_active_port(registry) # "" THEN Append(@, Head(wire.fc)) ELSE @]
    /\ UNCHANGED <<nonSerialVars, registry, callers, readers>>

InitSerial ==
    /\ build = <<>>
    /\ registry = EmptyRegistry
    /\ callers = [t \in Callers |-> IdleRequest]
    /\ readers = NoReaders
    /\ wire = QuietWire
    /\ EvalIdle /\ ReportIdle /\ FwIdle /\ DiagIdle /\ DiffIdle /\ MatchIdle /\ ExprIdle

NextSerial ==
    \/ \E t \in Callers :
        \/ ConnectOpen(t)
        \/ ConnectFails(t)
        \/ StartCheck(t)
        \/ StartThread(t)
        \/ StartRegister(t)
        \/ DisconnectActivePort(t)
        \/ DisconnectClose(t)
        \/ DiffActivePort(t)
        \/ DiffGetConnection(t)
        \/ CliWrite(t)
        \/ CliRead(t)
        \/ CliReadRaises(t)
        \/ CliTimeout(t)
    \/ \E r \in 1..MaxReaders :
        \/ ReaderGet(r)
        \/ ReaderIsOpen(r)
        \/ ReaderInWaiting(r)
        \/ ReaderReadAll(r)
        \/ ReaderExit(r)
    \/ FcSend

SpecSerial == InitSerial /\ [][NextSerial]_vars

\* the reader threads of the port that are alive
AliveReaders(port) ==
    {r \in 1..Len(readers.pool) : readers.pool[r].port = port /\ IsAlive(r)}

AllReturned == \A t \in Callers : callers[t].pc = "idle"

ReplyChunks == SeqToSet(EnterReply) \cup SeqToSet(DiffAllReply)

\* C27: a configuration read (enter_cli_mode, then get_diff_all) has the
\* flight controller's reply to itself while a reader thread runs: no
\* chunk of the reply reaches the terminal through the reader, and the
\* text the request answers with is the whole reply to "diff all" up to
\* the prompt.
C27_ExclusiveConfigRead ==
    /\ \A i \in 1..Len(wire.terminal) : wire.terminal[i] \notin ReplyChunks
    /\ wire.raw_text # NoAnswer => wire.raw_text = DiffAllReply

\* A /serial/diff-all request has answered with a text that lacks a chunk
\* of the reply, and a reader thread that is still alive sent that chunk
\* to the terminal.
C27_Witness ==
    /\ wire.raw_text # NoAnswer
    /\ \E i \in 1..Len(DiffAllReply) :
        /\ DiffAllReply[i] \notin SeqToSet(wire.raw_text)
        /\ DiffAllReply[i] \in SeqToSet(wire.terminal)
    /\ AliveReaders(ThePort) # {}

\* C28: once every connect and disconnect request has returned, an open
\* registered connection of the port has a live reader thread, and no
\* connection_status with connected False was emitted since that
\* connection was opened.
C28_OpenPortHasReader ==
    (AllReturned /\ get_connection(registry, ThePort) # 0)
        => (AliveReaders(ThePort) # {} /\ ~wire.disconnected)

\* The port was connected a second time, every request has returned, the
\* new connection is open, and the only reader has ended after emitting
\* connected False.
C28_Witness ==
    /\ AllReturned
    /\ get_connection(registry, ThePort) = 2
    /\ Len(readers.pool) = 1
    /\ AliveReaders(ThePort) = {}
    /\ wire.disconnected

\* C29: a port never has two live reader threads, however the
\* /serial/connect requests for it interleave.
C29_OneReaderPerPort == Cardinality(AliveReaders(ThePort)) <= 1

\* Two reader threads of the port are alive, both inside the loop with the
\* open connection, and every request has returned.
C29_Witness ==
    /\ AllReturned
    /\ Cardinality(AliveReaders(ThePort)) = 2
    /\ \A r \in AliveReaders(ThePort) :
        /\ readers.pool[r].conn = get_connection(registry, ThePort)
        /\ readers.pool[r].conn # 0

====
